---- MODULE Spec2Model ----
(***************************************************************************)
(* Account / line status lifecycle and line resolution of the telecom      *)
(* back-office application (demo_app).                                     *)
(*                                                                         *)
(* Text values that the code searches (line names, phone numbers, employee *)
(* names and numbers, identifiers) are sequences of ASCII code points,     *)
(* each written with its text beside it, so that lower(), strip(),         *)
(* split(), replace(), startswith() and icontains are computed as the code *)
(* computes them.                                                          *)
(***************************************************************************)
EXTENDS Integers, Sequences, FiniteSets, Bags, TLC

(***************************************************************************)
(* Bounds of the model.                                                    *)
(***************************************************************************)
\* total number of Line rows the database may hold
MaxLines == 4
\* longest line_identifiers list passed to an assistant operation
MaxIdents == 1
\* number of requests the server handles at the same time
MaxRequests == 2

(***************************************************************************)
(* Text helpers (Python str methods and Django's icontains lookup).        *)
(***************************************************************************)
\* c.lower(), on the code point of an ASCII character
LowerChar(c) == IF c \in 65..90 THEN c + 32 ELSE c

\* str.lower()
lower(s) == [i \in 1..Len(s) |-> LowerChar(s[i])]

RECURSIVE lstrip(_)
lstrip(s) == IF s # <<>> /\ Head(s) = 32 THEN lstrip(Tail(s)) ELSE s

RECURSIVE rstrip(_)
rstrip(s) == IF s # <<>> /\ s[Len(s)] = 32 THEN rstrip(SubSeq(s, 1, Len(s) - 1)) ELSE s

\* str.strip()
strip(s) == rstrip(lstrip(s))

\* str.startswith(p)
startswith(s, p) == Len(p) <= Len(s) /\ SubSeq(s, 1, Len(p)) = p

\* p in s
contains(s, p) == \E i \in 0..(Len(s) - Len(p)) : \A j \in 1..Len(p) : s[i + j] = p[j]

\* field__icontains=p : case-insensitive containment
icontains(field, p) == contains(lower(field), lower(p))

\* str.replace(old, ''), old non-empty
RECURSIVE remove(_, _)
remove(s, old) ==
    IF Len(s) < Len(old) THEN s
    ELSE IF startswith(s, old) THEN remove(SubSeq(s, Len(old) + 1, Len(s)), old)
    ELSE <<Head(s)>> \o remove(Tail(s), old)

\* str.split() : the maximal runs of non-blank characters
RECURSIVE split(_)
split(s) ==
    LET t == lstrip(s)
    IN  IF t = <<>> THEN <<>>
        ELSE LET n == IF \E i \in 1..Len(t) : t[i] = 32
                      THEN (CHOOSE i \in 1..Len(t) : t[i] = 32 /\ \A j \in 1..(i - 1) : t[j] # 32) - 1
                      ELSE Len(t)
             IN  <<SubSeq(t, 1, n)>> \o split(SubSeq(t, n + 1, Len(t)))

\* str(n) for 0 <= n <= 99
str(n) == IF n < 10 THEN <<48 + n>> ELSE <<48 + (n \div 10), 48 + (n % 10)>>

\* s < t in code-point order (SQLite's BINARY collation)
RECURSIVE StrLess(_, _)
StrLess(s, t) ==
    IF t = <<>> THEN FALSE
    ELSE IF s = <<>> THEN TRUE
    ELSE IF Head(s) = Head(t) THEN StrLess(Tail(s), Tail(t))
    ELSE Head(s) < Head(t)

(***************************************************************************)
(* The data model (models.py).                                             *)
(***************************************************************************)
AccountStatus == {"ACTIVE", "INACTIVE"}

LineStatus == {"ACTIVE", "SUSPENDED", "CANCELLED"}

\* the columns of the Line table: what Line.save() and objects.create() persist
LineFields == {"account", "line_name", "msdn", "employee_name", "employee_number", "status",
               "device", "plan", "protection", "trade_in_value", "total_monthly_cost"}

None == "None"

VARIABLES accounts, lines, last, trail, services, line_services, failing, chat, pending

vars == <<accounts, lines, last, trail, services, line_services, failing, chat, pending>>

\* the ids of the Service rows
ServiceIds == DOMAIN services

\* the ids of the Account rows
AccountIds == DOMAIN accounts

\* the ids of the Line rows
LineIds == DOMAIN lines

(***************************************************************************)
(* Query helpers (the ORM calls the code makes).                           *)
(***************************************************************************)
\* account.lines.all(), as a set of line ids
account_lines(db, a) == {l \in DOMAIN db : db[l].account = a}

\* Meta.ordering = ['line_name'] : the ways a database may return the rows S;
\* rows with equal line_name come in an order the database chooses
RECURSIVE OrderedBy(_, _)
OrderedBy(db, S) ==
    IF S = {} THEN {<<>>}
    ELSE UNION {{<<m>> \o t : t \in OrderedBy(db, S \ {m})} :
                m \in {x \in S : \A y \in S : ~StrLess(db[y].line_name, db[x].line_name)}}

\* the rows S of a queryset in the order ord the database returns rows in
rows(S, ord) == SelectSeq(ord, LAMBDA l : l \in S)

\* Line.save() / QuerySet.update() / objects.create() write the table's columns only
save(inst) == [f \in LineFields |-> inst[f]]

\* QuerySet.update(status=s) on the rows S
update(db, S, s) == [l \in DOMAIN db |-> IF l \in S THEN [db[l] EXCEPT !.status = s] ELSE db[l]]

\* the lines as collected, duplicates kept
unique_lines_all(seq, seen) == seq

\* an id-keyed dedup that keeps the first occurrence (_find_lines, "Remove duplicates")
RECURSIVE unique_lines(_, _)
unique_lines(seq, seen) ==
    IF seq = <<>> THEN <<>>
    ELSE IF Head(seq) \in seen THEN unique_lines(Tail(seq), seen)
    ELSE <<Head(seq)>> \o unique_lines(Tail(seq), seen \cup {Head(seq)})

(***************************************************************************)
(* Line resolver (chatbot.py, _find_lines).                                *)
(***************************************************************************)
\* the Q(...) | Q(...) | Q(...) | Q(...) filter on the four fields
line_matches(db, a, identifier) ==
    {l \in account_lines(db, a) :
        \/ icontains(db[l].line_name, identifier)
        \/ icontains(db[l].msdn, identifier)
        \/ icontains(db[l].employee_name, identifier)
        \/ icontains(db[l].employee_number, identifier)}

msdn_matches(db, a, clean_identifier) ==
    {l \in account_lines(db, a) : icontains(db[l].msdn, clean_identifier)}

part_matches(db, a, part) ==
    {l \in account_lines(db, a) : icontains(db[l].employee_name, part)}

\* for part in name_parts: the matches of the first part longer than 2 that has any
RECURSIVE name_part_matches(_, _, _)
name_part_matches(db, a, name_parts) ==
    IF name_parts = <<>> THEN {}
    ELSE IF Len(Head(name_parts)) > 2 /\ part_matches(db, a, Head(name_parts)) # {}
         THEN part_matches(db, a, Head(name_parts))
         ELSE name_part_matches(db, a, Tail(name_parts))

\* the body of the loop over line_identifiers: the lines one identifier adds
identifier_matches(db, a, raw) ==
    IF strip(raw) = <<>> THEN {}
    ELSE LET identifier == strip(lower(raw))
             direct == line_matches(db, a, identifier)
             clean_identifier == remove(remove(identifier, <<43, 49, 45>> (* "+1-" *)), <<53, 53, 53, 45>> (* "555-" *))
             phone == IF /\ \/ startswith(identifier, <<43, 49, 45>> (* "+1-" *))
                            \/ startswith(identifier, <<53, 53, 53>> (* "555" *))
                         /\ clean_identifier # <<>>
                      THEN msdn_matches(db, a, clean_identifier)
                      ELSE {}
         IN  IF direct # {} THEN direct
             ELSE IF phone # {} THEN phone
             ELSE name_part_matches(db, a, split(identifier))

RECURSIVE extend_lines(_, _, _, _)
extend_lines(db, a, line_identifiers, ord) ==
    IF line_identifiers = <<>> THEN <<>>
    ELSE rows(identifier_matches(db, a, Head(line_identifiers)), ord)
         \o extend_lines(db, a, Tail(line_identifiers), ord)

\* _find_lines with "ACTIVE" as the status filter when none is given
find_lines_active_default(db, a, line_identifiers, status_filter, ord) ==
    IF line_identifiers = <<>>
    THEN rows({l \in account_lines(db, a) : db[l].status = (IF status_filter # None THEN status_filter ELSE "ACTIVE")}, ord)
    ELSE unique_lines(extend_lines(db, a, line_identifiers, ord), {})

\* _find_lines(account, line_identifiers, status_filter); status_filter may be
\* None; an absent line_identifiers (None) is the empty list, which the code
\* treats alike ("if not line_identifiers")
find_lines(db, a, line_identifiers, status_filter, ord) ==
    IF line_identifiers = <<>>
    THEN IF status_filter # None
         THEN rows({l \in account_lines(db, a) : db[l].status = status_filter}, ord)
         ELSE rows(account_lines(db, a), ord)
    ELSE unique_lines(extend_lines(db, a, line_identifiers, ord), {})

(***************************************************************************)
(* Sample data (populate_sample_data) and the inputs of the operations.    *)
(***************************************************************************)
NoDevice == [model |-> None, color |-> None, storage |-> None, price |-> None]

NoPlan == [name |-> None, price |-> None, data_limit |-> None]

NoProtection == [name |-> None, price |-> None]

\* request bodies of POST /api/lines/create/ : one with every sub-object, one with none
FullBody ==
    [device |-> [model |-> "iPhone 15", color |-> "Black", storage |-> "128GB", price |-> 30],
     plan |-> [name |-> "Go5G", price |-> 75, data_limit |-> "Unlimited"],
     protection |-> [name |-> "Protection 360", price |-> 18],
     trade_in_value |-> 10,
     total_monthly_cost |-> 113,
     employee_name |-> <<65, 110, 110, 32, 76, 101, 101>> (* "Ann Lee" *)]

\* the defaults of the data.get(...) calls of create_line
DefaultBody ==
    [device |-> [model |-> "Unknown Device", color |-> "Unknown Color", storage |-> "Unknown Storage", price |-> 0],
     plan |-> [name |-> "Unknown Plan", price |-> 0, data_limit |-> "Unlimited"],
     protection |-> [name |-> "No Protection", price |-> 0],
     trade_in_value |-> 0,
     total_monthly_cost |-> 0,
     employee_name |-> <<85, 110, 107, 110, 111, 119, 110, 32, 69, 109, 112, 108, 111, 121, 101, 101>> (* "Unknown Employee" *)]

\* values random.randint(1000000, 9999999) may return
RandomPhones == {<<50, 48, 48, 48, 48, 48, 49>> (* "2000001" *), <<50, 48, 48, 48, 48, 48, 50>> (* "2000002" *)}

\* values random.randint(1000, 9999) may return
RandomEmployeeNumbers == {<<49, 48, 48, 49>> (* "1001" *)}

\* msdn = f"+1-{area_code}-{phone_number[:3]}-{phone_number[3:]}"
new_msdn(area_code, phone_number) ==
    <<43, 49, 45>> (* "+1-" *) \o area_code \o <<45>> (* "-" *) \o SubSeq(phone_number, 1, 3) \o <<45>> (* "-" *) \o SubSeq(phone_number, 4, 7)

\* employee_number = f"EMP{random.randint(1000, 9999)}"
new_employee_number(n) == <<69, 77, 80>> (* "EMP" *) \o n

\* f"Line {account.lines.count() + 1}"
next_line_name(db, a) == <<76, 105, 110, 101, 32>> (* "Line " *) \o str(Cardinality(account_lines(db, a)) + 1)

SampleLines ==
    << [account |-> 1, line_name |-> <<76, 105, 110, 101, 32, 49>> (* "Line 1" *),
        msdn |-> <<43, 49, 45, 53, 53, 53, 45, 48, 49, 50, 51>> (* "+1-555-0123" *),
        employee_name |-> <<74, 111, 104, 110, 32, 83, 109, 105, 116, 104>> (* "John Smith" *),
        employee_number |-> <<69, 77, 80, 48, 48, 49>> (* "EMP001" *), status |-> "ACTIVE",
        device |-> NoDevice, plan |-> NoPlan, protection |-> NoProtection,
        trade_in_value |-> None, total_monthly_cost |-> None],
       [account |-> 1, line_name |-> <<76, 105, 110, 101, 32, 50>> (* "Line 2" *),
        msdn |-> <<43, 49, 45, 53, 53, 53, 45, 48, 49, 50, 52>> (* "+1-555-0124" *),
        employee_name |-> <<83, 97, 114, 97, 104, 32, 74, 111, 104, 110, 115, 111, 110>> (* "Sarah Johnson" *),
        employee_number |-> <<69, 77, 80, 48, 48, 50>> (* "EMP002" *), status |-> "ACTIVE",
        device |-> NoDevice, plan |-> NoPlan, protection |-> NoProtection,
        trade_in_value |-> None, total_monthly_cost |-> None],
       \* a line added to the second account through POST /api/lines/create/
       [account |-> 2, line_name |-> <<76, 105, 110, 101, 32, 49>> (* "Line 1" *),
        msdn |-> new_msdn(<<53, 53, 53>> (* "555" *), <<50, 48, 48, 48, 48, 48, 49>> (* "2000001" *)),
        employee_name |-> FullBody.employee_name,
        employee_number |-> new_employee_number(<<49, 48, 48, 49>> (* "1001" *)), status |-> "ACTIVE",
        device |-> FullBody.device, plan |-> FullBody.plan, protection |-> FullBody.protection,
        trade_in_value |-> FullBody.trade_in_value, total_monthly_cost |-> FullBody.total_monthly_cost] >>

\* the catalog of populate_sample_data; money is in 1/10000 dollar, so that the 8% tax
\* on a price in cents is a whole number
SampleServices ==
    << [name |-> <<49, 32, 68, 97, 121, 32, 73, 110, 116, 101, 114, 110, 97, 116, 105, 111, 110, 97, 108, 32, 80, 97, 115, 115>> (* "1 Day International Pass" *),
        service_type |-> "INTERNATIONAL_PASS", price |-> 10000, duration_days |-> 1, is_active |-> TRUE],
       [name |-> <<49, 48, 32, 68, 97, 121, 32, 73, 110, 116, 101, 114, 110, 97, 116, 105, 111, 110, 97, 108, 32, 80, 97, 115, 115>> (* "10 Day International Pass" *),
        service_type |-> "INTERNATIONAL_PASS", price |-> 350000, duration_days |-> 10, is_active |-> TRUE],
       [name |-> <<51, 48, 32, 68, 97, 121, 32, 73, 110, 116, 101, 114, 110, 97, 116, 105, 111, 110, 97, 108, 32, 80, 97, 115, 115>> (* "30 Day International Pass" *),
        service_type |-> "INTERNATIONAL_PASS", price |-> 500000, duration_days |-> 30, is_active |-> TRUE] >>

\* account ids a request may carry: 0 is an absent id, 3 names no account
AccountIdInputs == 0..3

\* account ids an assistant operation may be called with
AccountIdArgs == 1..3

\* identifiers the assistant operations are called with
Identifiers ==
    { <<74, 111, 104, 110>> (* "John" *),
      <<83, 97, 114, 97, 104>> (* "Sarah" *),
      <<76, 105, 110, 101, 32, 49>> (* "Line 1" *) }

\* the line_identifiers arguments: lists of at most MaxIdents identifiers; <<>> is also "absent"
IdentifierLists == UNION {[1..n -> Identifiers] : n \in 0..MaxIdents}

(***************************************************************************)
(* What an operation hands back: the fields of the JSON response of an     *)
(* endpoint or of the result dict of an assistant operation; lines are     *)
(* named by id.                                                            *)
(***************************************************************************)
NoStats == [total |-> 0, active |-> 0, suspended |-> 0, inactive |-> 0]

Response(op, a) ==
    [op |-> op, account |-> a, http |-> 0, success |-> FALSE, error |-> "",
     needs_clarification |-> FALSE, auto_suspended |-> FALSE,
     results |-> <<>>, count |-> 0, total |-> 0,
     available_lines |-> <<>>, matching_lines |-> <<>>,
     status |-> None, old_status |-> None, line_stats |-> NoStats,
     line_identifiers |-> <<>>, status_filter |-> None,
     service_type |-> <<>>, service |-> 0, line_ids |-> {}, trigger_modal |-> None,
     entries |-> <<>>, lines_affected |-> 0, total_cost |-> 0]

\* an assistant request (its account, the credential setting and the model's reply) and
\* what process_message returns for it: response is the kind of text, tool_result the
\* lines it lists (None: no tool_result), line the line_to_mirror or line_to_upgrade of
\* a modal
NoChat ==
    [account |-> 0, api_key |-> None, reply |-> [kind |-> "none"], response |-> None,
     tool_result |-> None, refresh_needed |-> FALSE, needs_clarification |-> FALSE,
     trigger_modal |-> None, line |-> 0]

\* a request in its "for line in lines" loop holds the rows it loaded and has not yet
\* dealt with, each as it was read: no such request
NoRequest == [op |-> "idle", pc |-> "done", service |-> 0, loaded |-> <<>>]

\* the call of an assistant operation and, so far, no result
Call(op, account_id, line_identifiers) ==
    [Response(op, account_id) EXCEPT !.line_identifiers = line_identifiers]

\* progress of each line through REACTIVATE, CANCEL, REACTIVATE (0: none, 3: all three),
\* after operation op has saved the lines in acted and left the table as db;
\* the progress is recorded in the behaviours that start with a trail (InitRoundTrip)
TrailStep(op, acted, db) ==
    IF trail = <<>> THEN <<>> ELSE
    [l \in DOMAIN db |->
        IF l \notin DOMAIN lines THEN 0
        ELSE IF op = "reactivate_cancelled_lines" /\ l \in acted THEN (IF trail[l] = 2 THEN 3 ELSE 1)
        ELSE IF op = "cancel_lines" /\ l \in acted THEN (IF trail[l] = 1 THEN 2 ELSE 0)
        ELSE IF db[l].status # lines[l].status THEN 0
        ELSE trail[l]]

Init ==
    /\ accounts = <<[status |-> "ACTIVE"], [status |-> "ACTIVE"]>>
    /\ lines = SampleLines
    /\ last = Response("idle", 0)
    /\ trail = <<>>
    /\ services = SampleServices
    /\ line_services = EmptyBag
    /\ failing = {}
    /\ chat = NoChat
    /\ pending = [i \in 1..MaxRequests |-> NoRequest]

(***************************************************************************)
(* Status lifecycle of an account (models.py, views.py).                   *)
(***************************************************************************)
\* Account.save() cancelling the lines on every change of status
Account_save_any_change(acc, db, a, status) ==
    LET old_status == acc[a].status
    IN  [accounts |-> [acc EXCEPT ![a].status = status],
         lines |-> IF old_status # status
                   THEN update(db, account_lines(db, a), "CANCELLED")
                   ELSE db]

\* Account.save(): the row is written, and a change to INACTIVE cancels the lines
Account_save(acc, db, a, status) ==
    LET old_status == acc[a].status
    IN  [accounts |-> [acc EXCEPT ![a].status = status],
         lines |-> IF old_status # status /\ status = "INACTIVE"
                   THEN update(db, account_lines(db, a), "CANCELLED")
                   ELSE db]

\* Account.update_status() that leaves the cascade to save()
Account_update_status_save_only(acc, db, a, new_status) == Account_save(acc, db, a, new_status)

\* Account.update_status(new_status)
Account_update_status(acc, db, a, new_status) ==
    Account_save(acc,
                 IF new_status = "INACTIVE" THEN update(db, account_lines(db, a), "CANCELLED") ELSE db,
                 a, new_status)

\* the line_stats of the response of update_account_status
line_stats(db, a) ==
    [total |-> Cardinality(account_lines(db, a)),
     active |-> Cardinality({l \in account_lines(db, a) : db[l].status = "ACTIVE"}),
     suspended |-> Cardinality({l \in account_lines(db, a) : db[l].status = "SUSPENDED"}),
     inactive |-> Cardinality({l \in account_lines(db, a) : db[l].status = "INACTIVE"})]

\* the status update without the check of the status value
update_account_status_unvalidated(account_id, new_status) ==
    LET r == [Response("update_account_status", account_id) EXCEPT !.status = new_status]
        after == Account_update_status(accounts, lines, account_id, new_status)
    IN  IF account_id \notin AccountIds \/ new_status = None
        THEN /\ last' = [r EXCEPT !.http = 400, !.error = "required"]
             /\ UNCHANGED <<accounts, lines, trail, services, line_services, failing>>
        ELSE /\ accounts' = after.accounts
             /\ lines' = after.lines
             /\ trail' = TrailStep("update_account_status", {}, after.lines)
             /\ UNCHANGED <<services, line_services, failing>>
             /\ last' = [r EXCEPT !.http = 200, !.success = TRUE]

\* POST /api/accounts/update-status/ {account_id, status}
update_account_status(account_id, new_status) ==
    LET r == [Response("update_account_status", account_id) EXCEPT !.status = new_status]
    IN  IF account_id = 0 \/ new_status = None
        THEN /\ last' = [r EXCEPT !.http = 400, !.error = "required"]
             /\ UNCHANGED <<accounts, lines, trail, services, line_services, failing>>
        ELSE IF new_status \notin {"ACTIVE", "INACTIVE"}
        THEN /\ last' = [r EXCEPT !.http = 400, !.error = "invalid status"]
             /\ UNCHANGED <<accounts, lines, trail, services, line_services, failing>>
        ELSE IF account_id \notin AccountIds
        THEN /\ last' = [r EXCEPT !.http = 404, !.error = "not found"]
             /\ UNCHANGED <<accounts, lines, trail, services, line_services, failing>>
        ELSE LET after == Account_update_status(accounts, lines, account_id, new_status)
             IN  /\ accounts' = after.accounts
                 /\ lines' = after.lines
                 /\ trail' = TrailStep("update_account_status", {}, after.lines)
                 /\ UNCHANGED <<services, line_services, failing>>
                 /\ last' = [r EXCEPT !.http = 200, !.success = TRUE,
                                      !.old_status = accounts[account_id].status,
                                      !.line_stats = line_stats(after.lines, account_id)]

(***************************************************************************)
(* Assistant operations on line status (chatbot.py).                       *)
(***************************************************************************)
Range(seq) == {seq[i] : i \in 1..Len(seq)}

\* the lines of seq, whatever their status
with_status_unfiltered(db, seq, s) == seq

\* [line for line in lines if line.status == s]
with_status(db, seq, s) == SelectSeq(seq, LAMBDA l : db[l].status = s)

\* for line in seq: line.status = s; line.save()
save_status(db, seq, s) ==
    [l \in DOMAIN db |-> IF l \in Range(seq) THEN save([db[l] EXCEPT !.status = s]) ELSE db[l]]

\* a reactivation that clears cancelled_on and leaves status as it is
save_reactivated_status_kept(db, seq) ==
    [l \in DOMAIN db |->
        IF l \in Range(seq)
        THEN save([f \in LineFields \cup {"cancelled_on"} |->
                     IF f = "cancelled_on" THEN None ELSE db[l][f]])
        ELSE db[l]]

\* for line in seq: line.status = 'ACTIVE'; line.cancelled_on = None; line.save()
\* (cancelled_on is an attribute of the instance, not a column)
save_reactivated(db, seq) ==
    [l \in DOMAIN db |->
        IF l \in Range(seq)
        THEN save([f \in LineFields \cup {"cancelled_on"} |->
                     IF f = "cancelled_on" THEN None
                     ELSE IF f = "status" THEN "ACTIVE"
                     ELSE db[l][f]])
        ELSE db[l]]

\* get_object_or_404 raised: the except branch of an assistant operation
not_found(r) ==
    /\ last' = [r EXCEPT !.error = "not found"]
    /\ UNCHANGED <<accounts, lines, trail, services, line_services, failing>>

\* an assistant operation returns r without writing
returns(r) ==
    /\ last' = r
    /\ UNCHANGED <<accounts, lines, trail, services, line_services, failing>>

\* an assistant operation or endpoint has saved the lines of seq, leaving db, and returns r
writes(db, seq, r) ==
    /\ lines' = db
    /\ trail' = TrailStep(r.op, Range(seq), db)
    /\ last' = r
    /\ UNCHANGED <<accounts, services, line_services, failing>>

\* line.save() raises for the lines in failing. The lines of seq that a loop saves when
\* it catches the exception of each line:
saved(seq) == SelectSeq(seq, LAMBDA l : l \notin failing)

\* the per-line results of such a loop
outcomes(seq) ==
    [i \in 1..Len(seq) |-> [line |-> seq[i], text |-> IF seq[i] \in failing THEN "failed" ELSE "ok"]]

\* the lines of seq that a loop saves when it does not catch: those before the first
\* line whose save() raises
RECURSIVE saved_before_failure(_)
saved_before_failure(seq) ==
    IF seq = <<>> \/ Head(seq) \in failing THEN <<>>
    ELSE <<Head(seq)>> \o saved_before_failure(Tail(seq))

\* suspend_lines, "if not line_identifiers" with every ACTIVE line suspended
suspend_unidentified_all(r, account_id, ord) ==
    LET all_active_lines == rows({l \in account_lines(lines, account_id) : lines[l].status = "ACTIVE"}, ord)
    IN  IF Len(all_active_lines) >= 1
        THEN writes(save_status(lines, all_active_lines, "SUSPENDED"), all_active_lines,
                    [r EXCEPT !.success = TRUE, !.results = all_active_lines,
                              !.count = Len(all_active_lines), !.total = Len(all_active_lines),
                              !.auto_suspended = Len(all_active_lines) = 1])
        ELSE returns([r EXCEPT !.error = "no active lines"])

\* suspend_lines, the branch "if not line_identifiers"
suspend_unidentified(r, account_id, ord) ==
    LET all_active_lines == rows({l \in account_lines(lines, account_id) : lines[l].status = "ACTIVE"}, ord)
    IN  IF Len(all_active_lines) > 1
        THEN returns([r EXCEPT !.error = "specify", !.available_lines = all_active_lines,
                               !.total = Len(all_active_lines), !.needs_clarification = TRUE])
        ELSE IF Len(all_active_lines) = 1
        THEN writes(save_status(lines, saved(all_active_lines), "SUSPENDED"), saved(all_active_lines),
                    [r EXCEPT !.success = TRUE, !.results = saved(all_active_lines),
                              !.entries = outcomes(all_active_lines),
                              !.count = Len(saved(all_active_lines)),
                              !.total = 1, !.auto_suspended = TRUE])
        ELSE returns([r EXCEPT !.error = "no active lines"])

\* suspend_lines with identifiers, without the check for several matches
suspend_identified_unchecked(r, account_id, line_identifiers, ord) ==
    LET found == find_lines(lines, account_id, line_identifiers, None, ord)
        active_lines == with_status(lines, found, "ACTIVE")
    IN  IF found = <<>>
        THEN returns([r EXCEPT !.error = "no match", !.needs_clarification = TRUE,
                               !.total = Cardinality(account_lines(lines, account_id))])
        ELSE IF active_lines = <<>>
        THEN returns([r EXCEPT !.error = "none eligible", !.total = Len(found)])
        ELSE writes(save_status(lines, active_lines, "SUSPENDED"), active_lines,
                    [r EXCEPT !.success = TRUE, !.results = active_lines,
                              !.count = Len(active_lines), !.total = Len(active_lines)])

\* suspend_lines, with line_identifiers given
suspend_identified(r, account_id, line_identifiers, ord) ==
    LET found == find_lines(lines, account_id, line_identifiers, None, ord)
        active_lines == with_status(lines, found, "ACTIVE")
    IN  IF found = <<>>
        THEN returns([r EXCEPT !.error = "no match", !.needs_clarification = TRUE,
                               !.total = Cardinality(account_lines(lines, account_id))])
        ELSE IF Len(found) > 1
        THEN returns([r EXCEPT !.error = "multiple", !.matching_lines = found,
                               !.total = Len(found), !.needs_clarification = TRUE])
        ELSE IF active_lines = <<>>
        THEN returns([r EXCEPT !.error = "none eligible", !.total = Len(found)])
        ELSE writes(save_status(lines, saved(active_lines), "SUSPENDED"), saved(active_lines),
                    [r EXCEPT !.success = TRUE, !.results = saved(active_lines),
                              !.entries = outcomes(active_lines),
                              !.count = Len(saved(active_lines)), !.total = Len(active_lines)])

\* suspend_lines(account_id, line_identifiers)
chatbot_suspend_lines(account_id, line_identifiers, ord) ==
    LET r == Call("suspend_lines", account_id, line_identifiers)
    IN  IF account_id \notin AccountIds THEN not_found(r)
        ELSE IF line_identifiers = <<>> THEN suspend_unidentified(r, account_id, ord)
        ELSE suspend_identified(r, account_id, line_identifiers, ord)

\* restore_lines(account_id, line_identifiers)
chatbot_restore_lines(account_id, line_identifiers, ord) ==
    LET r == Call("restore_lines", account_id, line_identifiers)
    IN  IF account_id \notin AccountIds THEN not_found(r)
        ELSE LET found == IF line_identifiers = <<>>
                          THEN find_lines(lines, account_id, <<>>, "SUSPENDED", ord)
                          ELSE find_lines(lines, account_id, line_identifiers, None, ord)
                 suspended_lines == with_status(lines, found, "SUSPENDED")
             IN  IF found = <<>>
                 THEN returns([r EXCEPT !.error = "no match",
                                        !.total = Cardinality(account_lines(lines, account_id))])
                 ELSE IF suspended_lines = <<>>
                 THEN returns([r EXCEPT !.error = "none eligible", !.total = Len(found)])
                 \* the loop has no try of its own: the first save() that raises ends it
                 \* in the except branch of the operation
                 ELSE IF Range(suspended_lines) \cap failing # {}
                 THEN writes(save_status(lines, saved_before_failure(suspended_lines), "ACTIVE"),
                             saved_before_failure(suspended_lines),
                             [r EXCEPT !.error = "exception"])
                 ELSE writes(save_status(lines, suspended_lines, "ACTIVE"), suspended_lines,
                             [r EXCEPT !.success = TRUE, !.results = suspended_lines,
                                       !.entries = outcomes(suspended_lines),
                                       !.count = Len(suspended_lines), !.total = Len(suspended_lines)])

\* reactivate_cancelled_lines(account_id, line_identifiers)
chatbot_reactivate_cancelled_lines(account_id, line_identifiers, ord) ==
    LET r == Call("reactivate_cancelled_lines", account_id, line_identifiers)
    IN  IF account_id \notin AccountIds THEN not_found(r)
        ELSE LET found == IF line_identifiers = <<>>
                          THEN find_lines(lines, account_id, <<>>, "CANCELLED", ord)
                          ELSE find_lines(lines, account_id, line_identifiers, None, ord)
                 cancelled_lines == with_status(lines, found, "CANCELLED")
             IN  IF found = <<>>
                 THEN returns([r EXCEPT !.error = "no match",
                                        !.total = Cardinality(account_lines(lines, account_id))])
                 ELSE IF cancelled_lines = <<>>
                 THEN returns([r EXCEPT !.error = "none eligible", !.total = Len(found)])
                 ELSE writes(save_reactivated(lines, saved(cancelled_lines)), saved(cancelled_lines),
                             [r EXCEPT !.success = TRUE, !.results = saved(cancelled_lines),
                                       !.entries = outcomes(cancelled_lines),
                                       !.count = Len(saved(cancelled_lines)), !.total = Len(cancelled_lines)])

(***************************************************************************)
(* Line status endpoints (views.py).                                       *)
(***************************************************************************)
\* line_ids a request body may carry: any set of ids, of lines that exist or not
LineIdInputs == SUBSET (1..MaxLines)

\* the suspend endpoint counting every line found as suspended
views_suspend_lines_uncounted(line_ids, ord) ==
    LET r == Response("views_suspend_lines", 0)
        found == rows(line_ids \cap LineIds, ord)
    IN  IF line_ids = {} THEN returns([r EXCEPT !.http = 400, !.error = "required"])
        ELSE IF found = <<>> THEN returns([r EXCEPT !.http = 400, !.error = "no valid lines"])
        ELSE writes(save_status(lines, found, "SUSPENDED"), found,
                    [r EXCEPT !.http = 200, !.success = TRUE, !.results = found, !.count = Len(found)])

\* POST /api/lines/suspend/ {line_ids}
views_suspend_lines(line_ids, ord) ==
    LET r == Response("views_suspend_lines", 0)
        found == rows(line_ids \cap LineIds, ord)
        changed == with_status(lines, found, "ACTIVE")
    IN  IF line_ids = {} THEN returns([r EXCEPT !.http = 400, !.error = "required"])
        ELSE IF found = <<>> THEN returns([r EXCEPT !.http = 400, !.error = "no valid lines"])
        ELSE writes(save_status(lines, changed, "SUSPENDED"), changed,
                    [r EXCEPT !.http = 200, !.success = TRUE, !.results = changed, !.count = Len(changed)])

\* the restore endpoint restoring every line found
views_restore_lines_all_found(line_ids, ord) ==
    LET r == Response("views_restore_lines", 0)
        found == rows(line_ids \cap LineIds, ord)
    IN  IF line_ids = {} THEN returns([r EXCEPT !.http = 400, !.error = "required"])
        ELSE IF found = <<>> THEN returns([r EXCEPT !.http = 400, !.error = "no valid lines"])
        ELSE writes(save_status(lines, found, "ACTIVE"), found,
                    [r EXCEPT !.http = 200, !.success = TRUE, !.results = found, !.count = Len(found)])

\* POST /api/lines/restore/ {line_ids}
views_restore_lines(line_ids, ord) ==
    LET r == Response("views_restore_lines", 0)
        found == rows(line_ids \cap LineIds, ord)
        changed == with_status(lines, found, "SUSPENDED")
    IN  IF line_ids = {} THEN returns([r EXCEPT !.http = 400, !.error = "required"])
        ELSE IF found = <<>> THEN returns([r EXCEPT !.http = 400, !.error = "no valid lines"])
        ELSE writes(save_status(lines, changed, "ACTIVE"), changed,
                    [r EXCEPT !.http = 200, !.success = TRUE, !.results = changed, !.count = Len(changed)])

(***************************************************************************)
(* Line creation endpoints (views.py).                                     *)
(***************************************************************************)
\* Line.objects.create(...): the unique constraint on msdn makes it raise
msdn_taken(db, msdn) == \E l \in DOMAIN db : db[l].msdn = msdn

\* the response r of an endpoint that created line id
created(r, row) ==
    /\ lines' = Append(lines, save(row))
    /\ trail' = TrailStep(r.op, {}, Append(lines, save(row)))
    /\ last' = [r EXCEPT !.http = 200, !.success = TRUE, !.results = <<Len(lines) + 1>>, !.count = 1]
    /\ UNCHANGED <<accounts, services, line_services, failing>>

\* POST /api/lines/create/ ; body holds the device/plan/protection/tradeIn/line/summary
\* sub-objects, phone_number and n are the two random draws
create_line(account_id, body, phone_number, n) ==
    LET r == Response("create_line", account_id)
        msdn == new_msdn(<<53, 53, 53>> (* "555" *), phone_number)
    IN  IF account_id = 0 THEN returns([r EXCEPT !.http = 400, !.error = "required"])
        ELSE IF account_id \notin AccountIds THEN returns([r EXCEPT !.http = 404, !.error = "not found"])
        ELSE IF msdn_taken(lines, msdn) THEN returns([r EXCEPT !.http = 500, !.error = "server error"])
        ELSE created(r,
                     [account |-> account_id,
                      line_name |-> next_line_name(lines, account_id),
                      msdn |-> msdn,
                      employee_name |-> body.employee_name,
                      employee_number |-> new_employee_number(n),
                      status |-> "ACTIVE",
                      device |-> body.device, plan |-> body.plan, protection |-> body.protection,
                      trade_in_value |-> body.trade_in_value,
                      total_monthly_cost |-> body.total_monthly_cost])

\* POST /api/lines/mirror/ ; line_to_mirror_id 0, new_employee_name <<>> and
\* new_line_name <<>> are absent values; line_ids of the response is its mirrored_from id
create_mirrored_line(account_id, line_to_mirror_id, new_employee_name, new_line_name, phone_number, n) ==
    LET r == Response("create_mirrored_line", account_id)
        msdn == new_msdn(<<53, 53, 53>> (* "555" *), phone_number)
    IN  IF account_id = 0 \/ line_to_mirror_id = 0 \/ new_employee_name = <<>>
        THEN returns([r EXCEPT !.http = 400, !.error = "required"])
        ELSE IF account_id \notin AccountIds THEN returns([r EXCEPT !.http = 404, !.error = "not found"])
        ELSE IF line_to_mirror_id \notin account_lines(lines, account_id)
        THEN returns([r EXCEPT !.http = 404, !.error = "line not found"])
        ELSE IF msdn_taken(lines, msdn) THEN returns([r EXCEPT !.http = 500, !.error = "server error"])
        ELSE LET line_to_mirror == lines[line_to_mirror_id]
             IN  created([r EXCEPT !.line_ids = {line_to_mirror_id}],
                     [account |-> account_id,
                      line_name |-> IF new_line_name = <<>> \/ lower(new_line_name) = lower(<<77, 105, 114, 114, 111, 114, 101, 100, 32, 76, 105, 110, 101>> (* "Mirrored Line" *))
                                    THEN next_line_name(lines, account_id)
                                    ELSE new_line_name,
                      msdn |-> msdn,
                      employee_name |-> new_employee_name,
                      employee_number |-> new_employee_number(n),
                      status |-> "ACTIVE",
                      device |-> line_to_mirror.device, plan |-> line_to_mirror.plan,
                      protection |-> line_to_mirror.protection,
                      trade_in_value |-> line_to_mirror.trade_in_value,
                      total_monthly_cost |-> line_to_mirror.total_monthly_cost])

(***************************************************************************)
(* Management commands that write line statuses.                           *)
(***************************************************************************)
\* for line in seq: line.status = 'CANCELLED'; line.cancelled_on = timezone.now(); line.save()
save_cancelled(db, seq) ==
    [l \in DOMAIN db |->
        IF l \in Range(seq)
        THEN save([f \in LineFields \cup {"cancelled_on"} |->
                     IF f = "cancelled_on" THEN "now"
                     ELSE IF f = "status" THEN "CANCELLED"
                     ELSE db[l][f]])
        ELSE db[l]]

\* identifier.lower() in field.lower(), on any of the four fields
cancel_matches(db, a, identifier) ==
    {l \in account_lines(db, a) :
        \/ contains(lower(db[l].line_name), lower(identifier))
        \/ contains(lower(db[l].msdn), lower(identifier))
        \/ contains(lower(db[l].employee_name), lower(identifier))
        \/ contains(lower(db[l].employee_number), lower(identifier))}

\* manage.py cancel_lines --account-id A [--line-identifier I] [--force]; <<>> is no identifier
cancel_lines(account_id, line_identifier, force, ord) ==
    LET r == Response("cancel_lines", account_id)
    IN  IF account_id \notin AccountIds THEN returns([r EXCEPT !.error = "not found"])
        ELSE LET lines_to_cancel ==
                     IF line_identifier # <<>> THEN rows(cancel_matches(lines, account_id, line_identifier), ord)
                     ELSE IF force THEN rows(account_lines(lines, account_id), ord)
                     ELSE rows({l \in account_lines(lines, account_id) : lines[l].status = "ACTIVE"}, ord)
             IN  IF lines_to_cancel = <<>> THEN returns([r EXCEPT !.error = "no lines"])
                 ELSE writes(save_cancelled(lines, lines_to_cancel), lines_to_cancel,
                             [r EXCEPT !.success = TRUE, !.results = lines_to_cancel,
                                       !.count = Len(lines_to_cancel)])

\* manage.py fix_account_line_status [--dry-run]
fix_account_line_status(dry_run) ==
    LET r == Response("fix_account_line_status", 0)
        inconsistencies == {a \in AccountIds : /\ accounts[a].status = "INACTIVE"
                                               /\ \E l \in account_lines(lines, a) : lines[l].status \in {"ACTIVE", "SUSPENDED"}}
        lines_to_update == {l \in LineIds : lines[l].account \in inconsistencies /\ lines[l].status \in {"ACTIVE", "SUSPENDED"}}
    IN  IF inconsistencies = {} THEN returns([r EXCEPT !.success = TRUE])
        ELSE IF dry_run THEN returns([r EXCEPT !.success = TRUE, !.total = Cardinality(lines_to_update)])
        ELSE /\ lines' = update(lines, lines_to_update, "INACTIVE")
             /\ trail' = TrailStep("fix_account_line_status", {}, lines')
             /\ last' = [r EXCEPT !.success = TRUE, !.count = Cardinality(lines_to_update),
                                  !.total = Cardinality(lines_to_update)]
             /\ UNCHANGED <<accounts, services, line_services, failing>>

\* manage.py migrate_line_statuses
migrate_line_statuses ==
    LET r == Response("migrate_line_statuses", 0)
        inactive_lines == {l \in LineIds : lines[l].status = "INACTIVE"}
    IN  /\ lines' = update(lines, inactive_lines, "CANCELLED")
        /\ trail' = TrailStep("migrate_line_statuses", {}, lines')
        /\ last' = [r EXCEPT !.success = TRUE, !.count = Cardinality(inactive_lines)]
        /\ UNCHANGED <<accounts, services, line_services, failing>>

(***************************************************************************)
(* The system: every request and command, one at a time.                   *)
(***************************************************************************)
\* the orders in which the database may return the rows S during one request
Orders(S) == OrderedBy(lines, S)

\* random draws and request fields of the line creation endpoints
MirrorNames == {<<>>}

\* requests are handled one at a time, each to completion: no response is outstanding
Idle == last.op = "idle"

\* the requests: the endpoints and the assistant operations
Request ==
    \/ /\ Idle
       /\ UNCHANGED <<chat, pending>>
       /\ \E a \in AccountIdInputs, s \in {"ACTIVE", "INACTIVE", "SUSPENDED", None} : update_account_status(a, s)
    \/ /\ Idle
       /\ UNCHANGED <<chat, pending>>
       /\ \E a \in AccountIdArgs : \E ord \in Orders(account_lines(lines, a)) : \E ids \in IdentifierLists :
             chatbot_suspend_lines(a, ids, ord)
    \/ /\ Idle
       /\ UNCHANGED <<chat, pending>>
       /\ \E a \in AccountIdArgs : \E ord \in Orders(account_lines(lines, a)) : \E ids \in IdentifierLists :
             chatbot_restore_lines(a, ids, ord)
    \/ /\ Idle
       /\ UNCHANGED <<chat, pending>>
       /\ \E a \in AccountIdArgs : \E ord \in Orders(account_lines(lines, a)) : \E ids \in IdentifierLists :
             chatbot_reactivate_cancelled_lines(a, ids, ord)
    \/ /\ Idle
       /\ UNCHANGED <<chat, pending>>
       /\ \E ids \in LineIdInputs : \E ord \in Orders(ids \cap LineIds) : views_suspend_lines(ids, ord)
    \/ /\ Idle
       /\ UNCHANGED <<chat, pending>>
       /\ \E ids \in LineIdInputs : \E ord \in Orders(ids \cap LineIds) : views_restore_lines(ids, ord)
    \/ /\ Idle
       /\ UNCHANGED <<chat, pending>>
       /\ Len(lines) < MaxLines
       /\ \E a \in AccountIdInputs, phone \in RandomPhones, n \in RandomEmployeeNumbers :
             create_line(a, DefaultBody, phone, n)
    \/ /\ Idle
       /\ UNCHANGED <<chat, pending>>
       /\ Len(lines) < MaxLines
       /\ \E a \in AccountIdInputs, src \in 0..MaxLines, name \in MirrorNames, phone \in RandomPhones, n \in RandomEmployeeNumbers :
             create_mirrored_line(a, src, FullBody.employee_name, name, phone, n)

\* the management commands
Command ==
    \/ /\ Idle
       /\ UNCHANGED <<chat, pending>>
       /\ \E a \in AccountIdArgs : \E ord \in Orders(account_lines(lines, a)) : \E id \in Identifiers \cup {<<>>}, force \in BOOLEAN :
             cancel_lines(a, id, force, ord)
    \/ /\ Idle
       /\ UNCHANGED <<chat, pending>>
       /\ \E dry_run \in BOOLEAN : fix_account_line_status(dry_run)
    \/ /\ Idle
       /\ UNCHANGED <<chat, pending>>
       /\ migrate_line_statuses

\* the response is delivered; the next request may start
Respond ==
    /\ last.op # "idle"
    /\ last' = Response("idle", 0)
    /\ chat' = NoChat
    /\ UNCHANGED pending
    /\ UNCHANGED <<accounts, lines, trail, services, line_services, failing>>

Next == Request \/ Respond

Spec == Init /\ [][Next]_vars

\* the requests and the management commands
NextCommands == Request \/ Command \/ Respond

SpecCommands == Init /\ [][NextCommands]_vars

\* the round trip of a line through reactivation and cancellation, with the
\* progress of every line recorded in trail
InitRoundTrip ==
    /\ accounts = <<[status |-> "ACTIVE"], [status |-> "ACTIVE"]>>
    /\ lines = SampleLines
    /\ last = Response("idle", 0)
    /\ trail = [l \in DOMAIN SampleLines |-> 0]
    /\ services = SampleServices
    /\ line_services = EmptyBag
    /\ failing = {}
    /\ chat = NoChat
    /\ pending = [i \in 1..MaxRequests |-> NoRequest]

NextRoundTrip ==
    \/ /\ Idle
       /\ UNCHANGED <<chat, pending>>
       /\ \E a \in AccountIdArgs : \E ord \in Orders(account_lines(lines, a)) : \E ids \in IdentifierLists :
             chatbot_reactivate_cancelled_lines(a, ids, ord)
    \/ /\ Idle
       /\ UNCHANGED <<chat, pending>>
       /\ \E a \in AccountIdArgs : \E ord \in Orders(account_lines(lines, a)) : \E id \in Identifiers \cup {<<>>}, force \in BOOLEAN :
             cancel_lines(a, id, force, ord)
    \/ /\ Idle
       /\ UNCHANGED <<chat, pending>>
       /\ \E a \in AccountIdInputs, s \in {"ACTIVE", "INACTIVE", "SUSPENDED", None} : update_account_status(a, s)
    \/ /\ Idle
       /\ UNCHANGED <<chat, pending>>
       /\ \E ids \in LineIdInputs : \E ord \in Orders(ids \cap LineIds) : views_suspend_lines(ids, ord)
    \/ Respond

SpecRoundTrip == InitRoundTrip /\ [][NextRoundTrip]_vars

(***************************************************************************)
(* Properties.                                                             *)
(***************************************************************************)
\* the ACTIVE lines of account a
active_lines_of(a) == {l \in account_lines(lines, a) : lines[l].status = "ACTIVE"}

\* C1: when a status update to INACTIVE has completed, every line of that account
\* is CANCELLED, whatever the account's status and the lines' statuses were before.
C1_InactiveCancelsEveryLine ==
    (last.op = "update_account_status" /\ last.success /\ last.status = "INACTIVE")
        => \A l \in account_lines(lines, last.account) : lines[l].status = "CANCELLED"

\* C1 witness: an account that was already INACTIVE, and had got a third line, was set INACTIVE.
C1_Witness ==
    /\ last.op = "update_account_status" /\ last.success
    /\ last.status = "INACTIVE" /\ last.old_status = "INACTIVE"
    /\ Cardinality(account_lines(lines, last.account)) = 3

\* C2: an account whose status is INACTIVE has only CANCELLED lines, in every reachable state.
C2_InactiveAccountHasOnlyCancelledLines ==
    \A a \in AccountIds :
        accounts[a].status = "INACTIVE" => \A l \in account_lines(lines, a) : lines[l].status = "CANCELLED"

\* C3: a status update to ACTIVE changes no line: every line of every account is after
\* the update as it was before.
C3_ActiveChangesNoLine ==
    [][(last'.op = "update_account_status" /\ last'.success /\ last'.status = "ACTIVE")
          => /\ DOMAIN lines' = DOMAIN lines
             /\ \A l \in LineIds : lines'[l].status = lines[l].status]_vars

\* C3 witness: an INACTIVE account with a CANCELLED and an ACTIVE line was set ACTIVE.
C3_Witness ==
    /\ last.op = "update_account_status" /\ last.success
    /\ last.status = "ACTIVE" /\ last.old_status = "INACTIVE"
    /\ \E l \in account_lines(lines, last.account) : lines[l].status = "CANCELLED"
    /\ \E l \in account_lines(lines, last.account) : lines[l].status = "ACTIVE"

\* C4: every line's status is one of ACTIVE, SUSPENDED, CANCELLED, in every reachable state.
C4_LineStatusInChoices == \A l \in LineIds : lines[l].status \in LineStatus

\* C5: a suspend changes a line only from ACTIVE to SUSPENDED, a restore only from
\* SUSPENDED to ACTIVE, a reactivation only from CANCELLED to ACTIVE; by the assistant
\* operations and by the endpoints alike, and every other line is left as it was.
C5_AllowedEdgesOnly ==
    [][\A l \in LineIds :
          /\ last'.op \in {"suspend_lines", "views_suspend_lines"}
                => \/ lines'[l] = lines[l]
                   \/ lines[l].status = "ACTIVE" /\ lines'[l] = [lines[l] EXCEPT !.status = "SUSPENDED"]
          /\ last'.op \in {"restore_lines", "views_restore_lines"}
                => \/ lines'[l] = lines[l]
                   \/ lines[l].status = "SUSPENDED" /\ lines'[l] = [lines[l] EXCEPT !.status = "ACTIVE"]
          /\ last'.op = "reactivate_cancelled_lines"
                => \/ lines'[l] = lines[l]
                   \/ lines[l].status = "CANCELLED" /\ lines'[l] = [lines[l] EXCEPT !.status = "ACTIVE"]]_vars

\* C5 witness: a restore has made a line ACTIVE and left a CANCELLED line of the same account.
C5_Witness ==
    /\ last.op = "restore_lines" /\ last.success
    /\ \E l \in Range(last.results) : lines[l].status = "ACTIVE"
    /\ \E l \in account_lines(lines, last.account) : lines[l].status = "CANCELLED"

\* C6: the assistant's suspend with no identifiers, on an account with 3 ACTIVE lines,
\* suspends all 3 and returns 3 success entries and no failure.
C6_SuspendAllWithoutIdentifiers ==
    [][\A a \in AccountIds \cap {last'.account} :
          (/\ last'.op = "suspend_lines" /\ last'.line_identifiers = <<>>
           /\ Cardinality(active_lines_of(a)) = 3)
             => /\ \A l \in active_lines_of(a) : lines'[l].status = "SUSPENDED"
                /\ last'.success
                /\ Len(last'.results) = 3 /\ last'.count = 3 /\ last'.total = 3]_vars

resolved(a, ids) == UNION {identifier_matches(lines, a, ids[i]) : i \in 1..Len(ids)}

\* C8: when the identifiers resolve to two or more lines of the account, the assistant's
\* suspend changes no line (even if exactly one of them is ACTIVE) and returns
\* needs_clarification with all the matched lines.
C8_AmbiguousSuspendChangesNothing ==
    [][\A a \in AccountIds \cap {last'.account} : \A ids \in {last'.line_identifiers} \ {<<>>} :
          (/\ last'.op = "suspend_lines"
           /\ Cardinality(resolved(a, ids)) >= 2)
             => /\ lines' = lines
                /\ ~last'.success /\ last'.needs_clarification
                /\ Range(last'.matching_lines) = resolved(a, ids)
                /\ Len(last'.matching_lines) = Cardinality(resolved(a, ids))]_vars

\* C8 witness: a suspend was answered with two matching lines of which exactly one is ACTIVE.
C8_Witness ==
    /\ last.op = "suspend_lines" /\ last.needs_clarification
    /\ Len(last.matching_lines) >= 2
    /\ Cardinality({l \in Range(last.matching_lines) : lines[l].status = "ACTIVE"}) = 1

C10_RoundTripEndsActive ==
    \A l \in LineIds :
        (trail # <<>> /\ trail[l] = 3)
            => /\ lines[l].status = "ACTIVE"
               /\ "cancelled_on" \notin DOMAIN lines[l] \/ lines[l].cancelled_on = None

\* C10 witness: a line has been reactivated, cancelled and reactivated.
C10_Witness == trail # <<>> /\ \E l \in LineIds : trail[l] = 3

(***************************************************************************)
(* The line resolver on its own (chatbot.py, _find_lines): every operation *)
(* of the assistant hands it an Account it has already fetched.            *)
(***************************************************************************)
\* longest identifier list handed to the resolver
MaxResolveIdents == 2

\* a second employee called Sarah on the first account, whose line is named after her
SarahsLine ==
    [account |-> 1, line_name |-> <<83, 97, 114, 97, 104>> (* "Sarah" *),
     msdn |-> <<43, 49, 45, 53, 53, 53, 45, 48, 49, 50, 53>> (* "+1-555-0125" *),
     employee_name |-> <<83, 97, 114, 97, 104, 32, 83, 109, 105, 116, 104>> (* "Sarah Smith" *),
     employee_number |-> <<69, 77, 80, 48, 48, 51>> (* "EMP003" *), status |-> "ACTIVE",
     device |-> NoDevice, plan |-> NoPlan, protection |-> NoProtection,
     trade_in_value |-> None, total_monthly_cost |-> None]

\* the Line table the resolver is run on
ResolveLines == SampleLines \o <<SarahsLine>>

\* the statuses the four lines start with
ResolveStatuses ==
    { <<"ACTIVE", "ACTIVE", "ACTIVE", "ACTIVE">>,
      <<"ACTIVE", "SUSPENDED", "ACTIVE", "CANCELLED">>,
      <<"SUSPENDED", "SUSPENDED", "CANCELLED", "ACTIVE">>,
      <<"CANCELLED", "ACTIVE", "SUSPENDED", "SUSPENDED">> }

\* the identifiers a user names lines by: a name that two employee names contain, a
\* name in capitals, a number without its area code, a title and a surname, a blank,
\* three names of which the second is the first known one, a number without hyphens
ResolveIdentifiers ==
    { <<74, 111, 104, 110>> (* "John" *),
      <<83, 65, 82, 65, 72>> (* "SARAH" *),
      <<43, 49, 45, 48, 49, 50, 52>> (* "+1-0124" *),
      <<77, 114, 32, 83, 109, 105, 116, 104>> (* "Mr Smith" *),
      <<32, 32>> (* "  " *),
      <<66, 111, 98, 32, 83, 97, 114, 97, 104, 32, 83, 109, 105, 116, 104>> (* "Bob Sarah Smith" *),
      <<53, 53, 53, 48, 49, 50, 52>> (* "5550124" *) }

ResolveIdentifierLists == UNION {[1..n -> ResolveIdentifiers] : n \in 0..MaxResolveIdents}

\* _find_lines(account, line_identifiers, status_filter), called by an operation
resolveLines(account, line_identifiers, status_filter, ord) ==
    /\ Idle
    /\ UNCHANGED <<chat, pending>>
    /\ last' = [Call("find_lines", account, line_identifiers) EXCEPT
                   !.status_filter = status_filter,
                   !.success = TRUE,
                   !.results = find_lines(lines, account, line_identifiers, status_filter, ord)]
    /\ UNCHANGED <<accounts, lines, trail, services, line_services, failing>>

InitResolve ==
    /\ accounts = <<[status |-> "ACTIVE"], [status |-> "ACTIVE"]>>
    /\ \E st \in ResolveStatuses :
          lines = [l \in DOMAIN ResolveLines |-> [ResolveLines[l] EXCEPT !.status = st[l]]]
    /\ last = Response("idle", 0)
    /\ trail = <<>>
    /\ services = SampleServices
    /\ line_services = EmptyBag
    /\ failing = {}
    /\ chat = NoChat
    /\ pending = [i \in 1..MaxRequests |-> NoRequest]

NextResolve ==
    \/ \E account \in AccountIds, line_identifiers \in ResolveIdentifierLists,
          status_filter \in LineStatus \cup {None}, ord \in Orders(LineIds) :
          resolveLines(account, line_identifiers, status_filter, ord)
    \/ Respond

SpecResolve == InitResolve /\ [][NextResolve]_vars

\* C11: the resolver called with no identifiers and no status filter returns exactly
\* the lines of the account, each once, whatever their statuses, and no line of
\* another account
C11_NoIdentifiersReturnsAccountLines ==
    (last.op = "find_lines" /\ last.line_identifiers = <<>> /\ last.status_filter = None)
        => /\ Range(last.results) = account_lines(lines, last.account)
           /\ Len(last.results) = Cardinality(account_lines(lines, last.account))

\* an account with lines of three statuses was resolved while another account has a line
C11_Witness ==
    /\ last.op = "find_lines" /\ last.line_identifiers = <<>> /\ last.status_filter = None
    /\ {lines[l].status : l \in Range(last.results)} = LineStatus
    /\ \E l \in LineIds : lines[l].account # last.account

\* the lines each identifier of the list ids adds for account a
matches_of(a, ids) == [i \in 1..Len(ids) |-> identifier_matches(lines, a, ids[i])]

\* C12: the list the resolver returns for a list of identifiers holds no line twice,
\* holds exactly the lines some identifier matched, and has them in the order in which
\* they were first matched, scanning the identifiers from left to right
C12_ResolvedOnceInFirstSeenOrder ==
    (last.op = "find_lines" /\ last.line_identifiers # <<>>)
        => LET m == matches_of(last.account, last.line_identifiers)
               first_seen(l) == CHOOSE i \in DOMAIN m : l \in m[i] /\ \A j \in 1..(i - 1) : l \notin m[j]
           IN  /\ Range(last.results) = UNION {m[i] : i \in DOMAIN m}
               /\ \A p, q \in 1..Len(last.results) :
                     p < q => /\ last.results[p] # last.results[q]
                              /\ first_seen(last.results[p]) <= first_seen(last.results[q])

\* a line matched by both identifiers of a list, and on two fields by one of them, was
\* returned after a line only the first identifier matched
C12_Witness ==
    /\ last.op = "find_lines" /\ Len(last.line_identifiers) = 2
    /\ LET m == matches_of(last.account, last.line_identifiers)
       IN  /\ \E l \in m[1] \cap m[2] :
                /\ icontains(lines[l].line_name, last.line_identifiers[2])
                /\ icontains(lines[l].employee_name, last.line_identifiers[2])
           /\ m[2] \ m[1] # {}
           /\ Len(last.results) = Cardinality(m[1] \cup m[2])

\* C13: an identifier with a match on one of the four fields resolves to those matches;
\* otherwise, if it starts with the country code "+1-" or the area code "555", to the
\* lines whose msdn contains it with that prefix (and the hyphen after the area code)
\* stripped; and only if that finds nothing, to the matches on employee_name of its
\* first token longer than 2 characters that has any
C13_FallbacksInOrder ==
    (/\ last.op = "find_lines" /\ Len(last.line_identifiers) = 1
     /\ strip(last.line_identifiers[1]) # <<>>)
        => LET identifier == strip(lower(last.line_identifiers[1]))
               direct == line_matches(lines, last.account, identifier)
               no_country == IF startswith(identifier, <<43, 49, 45>> (* "+1-" *))
                             THEN SubSeq(identifier, 4, Len(identifier)) ELSE identifier
               no_area == IF startswith(no_country, <<53, 53, 53>> (* "555" *))
                          THEN SubSeq(no_country, 4, Len(no_country)) ELSE no_country
               prefix_stripped == IF startswith(no_area, <<45>> (* "-" *)) THEN Tail(no_area) ELSE no_area
               phone == IF /\ \/ startswith(identifier, <<43, 49, 45>> (* "+1-" *))
                              \/ startswith(identifier, <<53, 53, 53>> (* "555" *))
                           /\ prefix_stripped # <<>>
                        THEN msdn_matches(lines, last.account, prefix_stripped)
                        ELSE {}
           IN  Range(last.results) =
                   IF direct # {} THEN direct
                   ELSE IF phone # {} THEN phone
                   ELSE name_part_matches(lines, last.account, split(identifier))

(***************************************************************************)
(* The service resolver on its own (chatbot.py, _find_service).            *)
(***************************************************************************)
\* largest number of Service rows in the catalog
MaxServices == 4

\* Meta.ordering = ['price'] : the ways a database may return the Service rows S;
\* rows with equal price come in an order the database chooses
RECURSIVE ServicesOrderedBy(_, _)
ServicesOrderedBy(db, S) ==
    IF S = {} THEN {<<>>}
    ELSE UNION {{<<m>> \o t : t \in ServicesOrderedBy(db, S \ {m})} :
                m \in {x \in S : \A y \in S : db[x].price <= db[y].price}}

\* QuerySet.first() : the id of the first row of S in the order ord, 0 for None
first(S, ord) == IF S = {} THEN 0 ELSE Head(rows(S, ord))

\* Service.objects.filter(duration_days=d, is_active=True)
active_of_duration(db, d) == {x \in DOMAIN db : db[x].is_active /\ db[x].duration_days = d}

\* Service.objects.filter(service_type=t, is_active=True)
active_of_type(db, t) == {x \in DOMAIN db : db[x].is_active /\ db[x].service_type = t}

\* any(keyword in service_type for keyword in keywords)
any_keyword(service_type, keywords) == \E keyword \in keywords : contains(service_type, keyword)

\* _find_service with the 'international' / 'pass' keywords tried before the durations
find_service_pass_first(db, service_type_arg, ord) ==
    LET service_type == lower(service_type_arg)
    IN  IF \/ contains(service_type, <<105, 110, 116, 101, 114, 110, 97, 116, 105, 111, 110, 97, 108>> (* "international" *))
           \/ contains(service_type, <<112, 97, 115, 115>> (* "pass" *))
        THEN first(active_of_type(db, "INTERNATIONAL_PASS"), ord)
        ELSE IF any_keyword(service_type, {<<49, 32, 100, 97, 121>> (* "1 day" *), <<49, 100, 97, 121>> (* "1day" *), <<111, 110, 101, 32, 100, 97, 121>> (* "one day" *)})
             \/ service_type = <<49, 95, 100, 97, 121>> (* "1_day" *)
        THEN first(active_of_duration(db, 1), ord)
        ELSE 0

\* _find_service(service_type) : the id of the Service found, 0 for None
find_service(db, service_type_arg, ord) ==
    LET service_type == lower(service_type_arg)
    IN  IF service_type = <<49, 95, 100, 97, 121>> (* "1_day" *) THEN first(active_of_duration(db, 1), ord)
        ELSE IF service_type = <<49, 48, 95, 100, 97, 121>> (* "10_day" *) THEN first(active_of_duration(db, 10), ord)
        ELSE IF service_type = <<51, 48, 95, 100, 97, 121>> (* "30_day" *) THEN first(active_of_duration(db, 30), ord)
        ELSE IF service_type = <<105, 110, 116, 101, 114, 110, 97, 116, 105, 111, 110, 97, 108, 95, 112, 97, 115, 115>> (* "international_pass" *)
        THEN first(active_of_type(db, "INTERNATIONAL_PASS"), ord)
        ELSE IF any_keyword(service_type, {<<49, 32, 100, 97, 121>> (* "1 day" *), <<49, 100, 97, 121>> (* "1day" *), <<111, 110, 101, 32, 100, 97, 121>> (* "one day" *)})
        THEN first(active_of_duration(db, 1), ord)
        ELSE IF any_keyword(service_type, {<<49, 48, 32, 100, 97, 121>> (* "10 day" *), <<49, 48, 100, 97, 121>> (* "10day" *), <<116, 101, 110, 32, 100, 97, 121>> (* "ten day" *), <<119, 101, 101, 107>> (* "week" *)})
        THEN first(active_of_duration(db, 10), ord)
        ELSE IF any_keyword(service_type, {<<51, 48, 32, 100, 97, 121>> (* "30 day" *), <<51, 48, 100, 97, 121>> (* "30day" *), <<116, 104, 105, 114, 116, 121, 32, 100, 97, 121>> (* "thirty day" *), <<109, 111, 110, 116, 104>> (* "month" *)})
        THEN first(active_of_duration(db, 30), ord)
        ELSE IF \/ contains(service_type, <<105, 110, 116, 101, 114, 110, 97, 116, 105, 111, 110, 97, 108>> (* "international" *))
                \/ contains(service_type, <<112, 97, 115, 115>> (* "pass" *))
        THEN first(active_of_type(db, "INTERNATIONAL_PASS"), ord)
        ELSE first({x \in DOMAIN db : db[x].is_active /\ icontains(db[x].name, service_type)}, ord)

\* the services a catalog is drawn from: the three sample passes, a retired and cheaper
\* 1-day pass, a cheaper pass of another duration, an add-on whose name says "One Day",
\* and a second active service of one day, at the price of the first
ServicePool ==
    SampleServices \o
    << [name |-> <<49, 32, 68, 97, 121, 32, 80, 97, 115, 115, 32, 40, 114, 101, 116, 105, 114, 101, 100, 41>> (* "1 Day Pass (retired)" *),
        service_type |-> "INTERNATIONAL_PASS", price |-> 5000, duration_days |-> 1, is_active |-> FALSE],
       [name |-> <<87, 101, 101, 107, 101, 110, 100, 32, 80, 97, 115, 115>> (* "Weekend Pass" *),
        service_type |-> "INTERNATIONAL_PASS", price |-> 5000, duration_days |-> 3, is_active |-> TRUE],
       [name |-> <<79, 110, 101, 32, 68, 97, 121, 32, 68, 97, 116, 97, 32, 66, 111, 111, 115, 116>> (* "One Day Data Boost" *),
        service_type |-> "DATA_ADDON", price |-> 5000, duration_days |-> 7, is_active |-> TRUE],
       [name |-> <<49, 32, 68, 97, 121, 32, 67, 97, 108, 108, 105, 110, 103>> (* "1 Day Calling" *),
        service_type |-> "CALLING_ADDON", price |-> 10000, duration_days |-> 1, is_active |-> TRUE] >>

\* the rows of pool whose position is in S, in the order of pool
RECURSIVE catalog_of(_, _)
catalog_of(pool, S) ==
    IF pool = <<>> THEN <<>>
    ELSE catalog_of(SubSeq(pool, 1, Len(pool) - 1), S)
         \o (IF Len(pool) \in S THEN <<pool[Len(pool)]>> ELSE <<>>)

Catalogs == {catalog_of(ServicePool, S) : S \in {T \in SUBSET DOMAIN ServicePool : Cardinality(T) <= MaxServices}}

\* what a user may call a service
ServiceDescriptors ==
    { <<49, 95, 100, 97, 121>> (* "1_day" *),
      <<111, 110, 101, 32, 100, 97, 121>> (* "one day" *),
      <<49, 32, 100, 97, 121, 32, 112, 97, 115, 115>> (* "1 day pass" *),
      <<79, 110, 101, 32, 68, 97, 121, 32, 80, 97, 115, 115>> (* "One Day Pass" *),
      <<49, 48, 95, 100, 97, 121>> (* "10_day" *),
      <<97, 32, 109, 111, 110, 116, 104, 32, 97, 98, 114, 111, 97, 100>> (* "a month abroad" *),
      <<105, 110, 116, 101, 114, 110, 97, 116, 105, 111, 110, 97, 108, 95, 112, 97, 115, 115>> (* "international_pass" *),
      <<116, 114, 97, 118, 101, 108, 32, 112, 97, 115, 115>> (* "travel pass" *),
      <<100, 97, 116, 97>> (* "data" *),
      <<114, 111, 97, 109, 105, 110, 103>> (* "roaming" *) }

\* _find_service(service_type), called by an operation
resolveService(service_type, ord) ==
    /\ Idle
    /\ UNCHANGED <<chat, pending>>
    /\ last' = [Response("find_service", 0) EXCEPT
                   !.service_type = service_type,
                   !.success = TRUE,
                   !.service = find_service(services, service_type, ord)]
    /\ UNCHANGED <<accounts, lines, trail, services, line_services, failing>>

InitService ==
    /\ accounts = <<[status |-> "ACTIVE"], [status |-> "ACTIVE"]>>
    /\ lines = SampleLines
    /\ last = Response("idle", 0)
    /\ trail = <<>>
    /\ services \in Catalogs
    /\ line_services = EmptyBag
    /\ failing = {}
    /\ chat = NoChat
    /\ pending = [i \in 1..MaxRequests |-> NoRequest]

NextService ==
    \/ \E service_type \in ServiceDescriptors, ord \in ServicesOrderedBy(services, ServiceIds) :
          resolveService(service_type, ord)
    \/ Respond

SpecService == InitService /\ [][NextService]_vars

\* the active services of one day
one_day_services == active_of_duration(services, 1)

\* C14: when exactly one active service has duration_days = 1, the descriptors "1_day",
\* "one day" and "1 day pass" all resolve to that service, whatever else is in the catalog
C14_OneDayDescriptorsAgree ==
    (/\ last.op = "find_service"
     /\ last.service_type \in {<<49, 95, 100, 97, 121>> (* "1_day" *), <<111, 110, 101, 32, 100, 97, 121>> (* "one day" *), <<49, 32, 100, 97, 121, 32, 112, 97, 115, 115>> (* "1 day pass" *)}
     /\ Cardinality(one_day_services) = 1)
        => last.service \in one_day_services

\* "1 day pass" was resolved to the one active 1-day service of a catalog that also has
\* a retired 1-day service and a cheaper active pass of another duration
C14_Witness ==
    /\ last.op = "find_service" /\ last.service_type = <<49, 32, 100, 97, 121, 32, 112, 97, 115, 115>> (* "1 day pass" *)
    /\ one_day_services = {last.service}
    /\ \E x \in ServiceIds : ~services[x].is_active /\ services[x].duration_days = 1
    /\ \E x \in active_of_type(services, "INTERNATIONAL_PASS") :
          services[x].price < services[last.service].price

(***************************************************************************)
(* Properties of the line status endpoints and of the status validation.   *)
(***************************************************************************)
\* the two line status endpoints, on a table whose lines have any of the statuses
NextEndpoints ==
    \/ /\ Idle
       /\ UNCHANGED <<chat, pending>>
       /\ \E ids \in LineIdInputs : \E ord \in Orders(ids \cap LineIds) : views_suspend_lines(ids, ord)
    \/ /\ Idle
       /\ UNCHANGED <<chat, pending>>
       /\ \E ids \in LineIdInputs : \E ord \in Orders(ids \cap LineIds) : views_restore_lines(ids, ord)
    \/ Respond

SpecEndpoints == InitResolve /\ [][NextEndpoints]_vars

\* the lines with status s among the requested line_ids
eligible(line_ids, s) == {l \in line_ids \cap LineIds : lines[l].status = s}

\* lines differs from lines' on exactly the lines of S, which now have status s
changed_exactly(S, s) ==
    /\ DOMAIN lines' = DOMAIN lines
    /\ \A l \in LineIds : lines'[l] = IF l \in S THEN [lines[l] EXCEPT !.status = s] ELSE lines[l]

\* C17: POST /api/lines/suspend/ moves exactly the requested ACTIVE lines to SUSPENDED and
\* POST /api/lines/restore/ exactly the requested SUSPENDED lines to ACTIVE; every other
\* line, requested or not, is left as it was, and the response lists exactly the lines
\* whose status was changed
C17_EndpointsChangeExactlyEligible ==
    [][/\ last'.op = "views_suspend_lines"
          => \A line_ids \in LineIdInputs : \A ord \in Orders(line_ids \cap LineIds) :
                views_suspend_lines(line_ids, ord)
                   => /\ changed_exactly(eligible(line_ids, "ACTIVE"), "SUSPENDED")
                      /\ Range(last'.results) = eligible(line_ids, "ACTIVE")
                      /\ Len(last'.results) = Cardinality(eligible(line_ids, "ACTIVE"))
                      /\ last'.count = Len(last'.results)
       /\ last'.op = "views_restore_lines"
          => \A line_ids \in LineIdInputs : \A ord \in Orders(line_ids \cap LineIds) :
                views_restore_lines(line_ids, ord)
                   => /\ changed_exactly(eligible(line_ids, "SUSPENDED"), "ACTIVE")
                      /\ Range(last'.results) = eligible(line_ids, "SUSPENDED")
                      /\ Len(last'.results) = Cardinality(eligible(line_ids, "SUSPENDED"))
                      /\ last'.count = Len(last'.results)]_vars

\* a restore has changed one line while an ACTIVE, a SUSPENDED and a CANCELLED line stayed
\* as they were
C17_Witness ==
    /\ last.op = "views_restore_lines" /\ Len(last.results) = 1
    /\ {lines[l].status : l \in LineIds \ Range(last.results)} = LineStatus

\* C18: a status update whose status is neither ACTIVE nor INACTIVE is answered with 400
\* and leaves every account's status and every line as they were
C18_OtherStatusRejected ==
    [][(last'.op = "update_account_status" /\ last'.status \notin {"ACTIVE", "INACTIVE"})
          => /\ last'.http = 400 /\ ~last'.success
             /\ accounts' = accounts
             /\ lines' = lines]_vars

\* SUSPENDED was refused for an account that exists and has a line that is not CANCELLED
C18_Witness ==
    /\ last.op = "update_account_status" /\ last.status = "SUSPENDED" /\ last.http = 400
    /\ last.account \in AccountIds
    /\ \E l \in account_lines(lines, last.account) : lines[l].status # "CANCELLED"

(***************************************************************************)
(* Adding a service to lines (views.py and chatbot.py, add_service_to_lines)*)
(***************************************************************************)
\* largest number of LineService rows
MaxLineServices == 3

\* The LineService table is a bag of rows: the code modelled reads the columns of a row
\* and never its id.

\* LineService.objects.create(line=line, service=service, status='ACTIVE', ...) with
\* tax_amount = base_price * Decimal('0.08') and total_amount = base_price + tax_amount
new_line_service(line, service, payment_method) ==
    LET base_price == services[service].price
        tax_amount == (base_price * 8) \div 100
    IN  [line |-> line, service |-> service, status |-> "ACTIVE",
         amount_paid |-> base_price, tax_amount |-> tax_amount,
         total_amount |-> base_price + tax_amount, payment_method |-> payment_method]

\* LineService.objects.filter(line=line, service=service, status__in=['PENDING', 'ACTIVE'])
in_force(db, line, service) ==
    {row \in BagToSet(db) :
        row.line = line /\ row.service = service /\ row.status \in {"PENDING", "ACTIVE"}}

\* no check for a service the line already has
existing_unchecked(db, line, service) == FALSE

\* LineService.objects.filter(...).exists()
existing(db, line, service) == in_force(db, line, service) # {}

\* "for line in lines" of both add_service_to_lines: the LineService table, the per-line
\* results and the lines a LineService was created for, after the lines of seq
RECURSIVE add_service_loop(_, _, _, _)
add_service_loop(acc, seq, service, payment_method) ==
    IF seq = <<>> THEN acc
    ELSE LET line == Head(seq)
         IN  add_service_loop(
                 IF existing(acc.table, line, service)
                 THEN [acc EXCEPT !.entries = Append(@, [line |-> line, text |-> "already active"])]
                 ELSE [table |-> acc.table (+) SetToBag({new_line_service(line, service, payment_method)}),
                       entries |-> Append(acc.entries, [line |-> line, text |-> "added"]),
                       created |-> Append(acc.created, line)],
                 Tail(seq), service, payment_method)

\* an add-service operation returns r, having left the LineService table as table
purchased(table, r) ==
    /\ line_services' = table
    /\ last' = r
    /\ UNCHANGED <<accounts, lines, trail, services, failing>>

\* POST /api/services/add/ with a body that is not JSON, or {service_id, line_ids}
views_add_service_to_lines(malformed, service_id, line_ids, ord) ==
    LET r == [Response("views_add_service_to_lines", 0) EXCEPT
                 !.service = service_id, !.line_ids = line_ids]
        found == rows(line_ids \cap LineIds, ord)
        done == add_service_loop([table |-> line_services, entries |-> <<>>, created |-> <<>>],
                                 found, service_id, "Credit Card")
    IN  IF malformed THEN returns([Response("views_add_service_to_lines", 0) EXCEPT
                                      !.http = 400, !.error = "invalid json"])
        ELSE IF service_id = 0 \/ line_ids = {} THEN returns([r EXCEPT !.http = 400, !.error = "required"])
        \* get_object_or_404 raises Http404 inside the try: "except Exception" answers it
        ELSE IF service_id \notin ServiceIds THEN returns([r EXCEPT !.http = 500, !.error = "not found"])
        ELSE IF found = <<>> THEN returns([r EXCEPT !.http = 400, !.error = "no valid lines"])
        ELSE purchased(done.table,
                       [r EXCEPT !.http = 200, !.success = TRUE, !.results = done.created,
                                 !.count = Len(done.created)])

\* successful_additions, counting the lines found
successful_additions_found(done) == Len(done.entries)

\* successful_additions at the end of the loop
successful_additions(done) == Len(done.created)

\* add_service_to_lines(account_id, service_type, line_identifiers) of the assistant
chatbot_add_service_to_lines(account_id, service_type, line_identifiers, ord, service_ord) ==
    LET r == [Call("add_service_to_lines", account_id, line_identifiers) EXCEPT
                 !.service_type = service_type]
        service == find_service(services, service_type, service_ord)
        found == find_lines(lines, account_id, line_identifiers, None, ord)
        done == add_service_loop([table |-> line_services, entries |-> <<>>, created |-> <<>>],
                                 found, service, "AI Assistant")
    IN  IF account_id \notin AccountIds THEN not_found(r)
        ELSE IF strip(service_type) = <<>>
        THEN returns([r EXCEPT !.success = TRUE, !.trigger_modal = "add_service"])
        ELSE IF service = 0
        THEN returns([r EXCEPT !.error = "service not found", !.needs_clarification = TRUE])
        ELSE IF found = <<>> THEN returns([r EXCEPT !.error = "no match", !.service = service])
        ELSE purchased(done.table,
                       [r EXCEPT !.success = TRUE, !.service = service,
                                 !.entries = done.entries,
                                 !.lines_affected = successful_additions(done),
                                 !.total_cost = (services[service].price + (services[service].price * 8) \div 100)
                                                * successful_additions(done)])

\* service ids a request body may carry: 0 is an absent id, 9 names no service
ServiceIdInputs == {0, 1, 2, 9}

\* what the assistant is asked to add: nothing, a pass, an unknown service
ServiceTypeArgs ==
    { <<>>,
      <<49, 32, 100, 97, 121, 32, 112, 97, 115, 115>> (* "1 day pass" *),
      <<114, 111, 97, 109, 105, 110, 103>> (* "roaming" *) }

\* line ids a request body may carry: 4 names no line
AddLineIdInputs == {{}, {1}, {1, 2}, {2, 3}, {4}, {1, 4}}

\* the identifier lists the assistant passes on: none (every line of the account), the
\* word the test commands pass for every line, a name on two lines of the first account,
\* a line name
AddIdentifierLists ==
    { <<>>,
      <<<<97, 108, 108>> (* "all" *)>>,
      <<<<74, 111, 104, 110>> (* "John" *)>>,
      <<<<76, 105, 110, 101, 32, 50>> (* "Line 2" *)>> }

\* LineService tables before the first request: none, and a pass that has expired
LineServiceTables ==
    { EmptyBag,
      SetToBag({[line |-> 2, service |-> 1, status |-> "EXPIRED",
                 amount_paid |-> SampleServices[1].price,
                 tax_amount |-> (SampleServices[1].price * 8) \div 100,
                 total_amount |-> (SampleServices[1].price * 108) \div 100,
                 payment_method |-> "Credit Card"]}) }

InitAddService ==
    /\ accounts = <<[status |-> "ACTIVE"], [status |-> "ACTIVE"]>>
    /\ lines = SampleLines
    /\ last = Response("idle", 0)
    /\ trail = <<>>
    /\ services = SampleServices
    /\ line_services \in LineServiceTables
    /\ failing = {}
    /\ chat = NoChat
    /\ pending = [i \in 1..MaxRequests |-> NoRequest]

\* the two add-service operations, one request at a time
NextAddService ==
    \/ /\ Idle
       /\ UNCHANGED <<chat, pending>>
       /\ \E malformed \in BOOLEAN, service_id \in ServiceIdInputs, line_ids \in AddLineIdInputs :
             \E ord \in Orders(line_ids \cap LineIds) :
                views_add_service_to_lines(malformed, service_id, line_ids, ord)
       /\ BagCardinality(line_services') <= MaxLineServices
    \/ /\ Idle
       /\ UNCHANGED <<chat, pending>>
       /\ \E a \in AccountIdArgs, service_type \in ServiceTypeArgs, ids \in AddIdentifierLists :
             \E ord \in Orders(account_lines(lines, a)), service_ord \in ServicesOrderedBy(services, ServiceIds) :
                chatbot_add_service_to_lines(a, service_type, ids, ord, service_ord)
       /\ BagCardinality(line_services') <= MaxLineServices
    \/ Respond

SpecAddService == InitAddService /\ [][NextAddService]_vars

\* the number of rows of the bag db that are in the set S
copies(db, S) == BagCardinality([row \in S \cap BagToSet(db) |-> db[row]])

\* C15: after any sequence of add-service requests, through the endpoint and through the
\* assistant, no line has two PENDING or ACTIVE LineService rows for the same service
C15_OneLineServiceInForce ==
    \A line \in LineIds, service \in ServiceIds :
        copies(line_services, in_force(line_services, line, service)) <= 1

\* the assistant was asked for a service that one of the resolved lines had already
\* bought through the endpoint, and added it to the other line only
C15_Witness ==
    /\ last.op = "add_service_to_lines"
    /\ \E i, j \in DOMAIN last.entries :
          /\ last.entries[i].text = "already active" /\ last.entries[j].text = "added"
          /\ \E row \in in_force(line_services, last.entries[i].line, last.service) :
                row.payment_method = "Credit Card"
          /\ \E row \in in_force(line_services, last.entries[j].line, last.service) :
                row.payment_method = "AI Assistant"

\* the rows added to the LineService table in this step
added_rows == line_services' (-) line_services

\* C16: when the assistant adds a service, a resolved line that already has it PENDING or
\* ACTIVE gets no new LineService, every other resolved line gets one, lines_affected is
\* the number of LineService rows the call created and total_cost is that number times
\* the price with 8% tax
C16_SkipsAndCountsAdditions ==
    [][(last'.op = "add_service_to_lines" /\ last'.success /\ last'.trigger_modal = None)
          => /\ line_services \sqsubseteq line_services'
             /\ \A row \in BagToSet(added_rows) : row.service = last'.service
             /\ \A e \in Range(last'.entries) :
                   copies(added_rows, {row \in BagToSet(added_rows) : row.line = e.line})
                      = IF existing(line_services, e.line, last'.service) THEN 0 ELSE 1
             /\ last'.lines_affected = BagCardinality(added_rows)
             /\ last'.total_cost * 100
                   = BagCardinality(added_rows) * services[last'.service].price * 108]_vars

\* a call resolved two lines, skipped one and charged for the other
C16_Witness ==
    /\ last.op = "add_service_to_lines" /\ last.success
    /\ Len(last.entries) = 2 /\ last.lines_affected = 1
    /\ \E e \in Range(last.entries) : e.text = "already active"
    /\ last.total_cost > 0

\* C19: POST /api/services/add/ answers a body that is not JSON with 400 and a body naming
\* a service or a line that does not exist with 404, and creates no LineService for either
C19_MissingEntityIs404 ==
    [][last'.op = "views_add_service_to_lines"
          => /\ last'.error = "invalid json" => last'.http = 400 /\ line_services' = line_services
             /\ (/\ last'.error # "invalid json" /\ last'.service # 0 /\ last'.line_ids # {}
                 /\ \/ last'.service \notin ServiceIds
                    \/ ~(last'.line_ids \subseteq LineIds))
                   => last'.http = 404 /\ line_services' = line_services]_vars

(***************************************************************************)
(* The assistant's line operations when saving a line fails.               *)
(***************************************************************************)
\* the identifier lists of the operations: none (every eligible line of the account) and
\* a name on two lines of the first account
FaultIdentifierLists ==
    { <<>>,
      <<<<83, 97, 114, 97, 104>> (* "Sarah" *)>> }

\* a table with lines of every status, on which save() raises for at most one line
InitFaults ==
    /\ accounts = <<[status |-> "ACTIVE"], [status |-> "ACTIVE"]>>
    /\ \E st \in ResolveStatuses :
          lines = [l \in DOMAIN ResolveLines |-> [ResolveLines[l] EXCEPT !.status = st[l]]]
    /\ last = Response("idle", 0)
    /\ trail = <<>>
    /\ services = SampleServices
    /\ line_services = EmptyBag
    /\ failing \in {S \in SUBSET DOMAIN ResolveLines : Cardinality(S) <= 1}
    /\ chat = NoChat
    /\ pending = [i \in 1..MaxRequests |-> NoRequest]

NextFaults ==
    \/ /\ Idle
       /\ UNCHANGED <<chat, pending>>
       /\ \E a \in AccountIdArgs : \E ord \in Orders(account_lines(lines, a)) : \E ids \in FaultIdentifierLists :
             chatbot_suspend_lines(a, ids, ord)
    \/ /\ Idle
       /\ UNCHANGED <<chat, pending>>
       /\ \E a \in AccountIdArgs : \E ord \in Orders(account_lines(lines, a)) : \E ids \in FaultIdentifierLists :
             chatbot_restore_lines(a, ids, ord)
    \/ /\ Idle
       /\ UNCHANGED <<chat, pending>>
       /\ \E a \in AccountIdArgs : \E ord \in Orders(account_lines(lines, a)) : \E ids \in FaultIdentifierLists :
             chatbot_reactivate_cancelled_lines(a, ids, ord)
    \/ Respond

SpecFaults == InitFaults /\ [][NextFaults]_vars

\* the lines with status s that an operation on account a with the identifiers ids
\* sets about changing
candidates(a, ids, s) ==
    {l \in (IF ids = <<>> THEN account_lines(lines, a) ELSE resolved(a, ids)) : lines[l].status = s}

\* C20: when save() fails for one of several lines that a restore or a reactivation of the
\* assistant sets about changing, the result has success = true and one entry for each of
\* those lines, marking the failed one, and the other lines are changed
C20_PartialFailureReportedPerLine ==
    [][\A op \in {<<"restore_lines", "SUSPENDED">>, <<"reactivate_cancelled_lines", "CANCELLED">>} :
          (/\ last'.op = op[1] /\ last'.account \in AccountIds
           /\ Cardinality(candidates(last'.account, last'.line_identifiers, op[2])) >= 2
           /\ candidates(last'.account, last'.line_identifiers, op[2]) \cap failing # {})
             => LET c == candidates(last'.account, last'.line_identifiers, op[2])
                IN  /\ last'.success
                    /\ {e.line : e \in Range(last'.entries)} = c
                    /\ Len(last'.entries) = Cardinality(c)
                    /\ \A e \in Range(last'.entries) : e.text = "failed" <=> e.line \in failing
                    /\ \A l \in c \ failing : lines'[l].status = "ACTIVE"
                    /\ \A l \in c \cap failing : lines'[l] = lines[l]]_vars

(***************************************************************************)
(* Properties of the response of the account status update.                *)
(***************************************************************************)
\* C26: in the response of a successful account status update the counts of active,
\* suspended and inactive lines add up to the reported total of the account's lines
C26_LineStatsAddUp ==
    (last.op = "update_account_status" /\ last.success)
        => last.line_stats.active + last.line_stats.suspended + last.line_stats.inactive
              = last.line_stats.total

\* C25: the single identifier "all" makes the assistant's add-service operation process
\* every line of the account, whatever the lines are called
C25_AllSelectsEveryLine ==
    (/\ last.op = "add_service_to_lines" /\ last.account \in AccountIds
     /\ last.line_identifiers = <<<<97, 108, 108>> (* "all" *)>>
     /\ last.service # 0)
        => {e.line : e \in Range(last.entries)} = account_lines(lines, last.account)

\* C23: a successful mirror request adds exactly one line, in the account of the source
\* line, with the source's device, plan, protection and trade-in fields, an msdn that no
\* line had before and an employee_number other than the source's; the lines that
\* existed keep every field
C23_MirrorCopiesWithNewNumbers ==
    [][(last'.op = "create_mirrored_line" /\ last'.success)
          => \E src \in last'.line_ids :
                LET new == lines'[Len(lines')]
                IN  /\ Len(lines') = Len(lines) + 1
                    /\ SubSeq(lines', 1, Len(lines)) = lines
                    /\ new.account = lines[src].account
                    /\ new.device = lines[src].device
                    /\ new.plan = lines[src].plan
                    /\ new.protection = lines[src].protection
                    /\ new.trade_in_value = lines[src].trade_in_value
                    /\ \A l \in DOMAIN lines : lines[l].msdn # new.msdn
                    /\ new.employee_number # lines[src].employee_number]_vars

(***************************************************************************)
(* The assistant dispatcher (AITMobileChatbot) and the operations of its   *)
(* function_map that only read.                                            *)
(***************************************************************************)
\* list_account_lines(account_id, status_filter); status_filter names a whole status
list_account_lines(account_id, status_filter, ord) ==
    LET r == [Response("list_account_lines", account_id) EXCEPT !.status_filter = status_filter]
        listed == IF status_filter # None
                  THEN rows({l \in account_lines(lines, account_id) : lines[l].status = status_filter}, ord)
                  ELSE rows(account_lines(lines, account_id), ord)
    IN  IF account_id \notin AccountIds THEN not_found(r)
        ELSE returns([r EXCEPT !.success = TRUE, !.results = listed, !.total = Len(listed)])

\* get_account_summary(account_id)
get_account_summary(account_id) ==
    LET r == Response("get_account_summary", account_id)
    IN  IF account_id \notin AccountIds THEN not_found(r)
        ELSE returns([r EXCEPT
                 !.success = TRUE,
                 !.status = accounts[account_id].status,
                 !.line_stats = [NoStats EXCEPT
                     !.total = Cardinality(account_lines(lines, account_id)),
                     !.active = Cardinality({l \in account_lines(lines, account_id) : lines[l].status = "ACTIVE"}),
                     !.suspended = Cardinality({l \in account_lines(lines, account_id) : lines[l].status = "SUSPENDED"})]])

\* add_line_to_account(account_id)
add_line_to_account(account_id) ==
    LET r == Response("add_line_to_account", account_id)
    IN  IF account_id \notin AccountIds THEN not_found(r)
        ELSE returns([r EXCEPT !.success = TRUE, !.trigger_modal = "add_line"])

\* mirror_line(account_id, line_identifier); line_identifier <<>> is an absent or empty one
mirror_line(account_id, line_identifier, ord) ==
    LET r == Call("mirror_line", account_id, IF line_identifier = <<>> THEN <<>> ELSE <<line_identifier>>)
        line_to_mirror == IF line_identifier = <<>> THEN <<>>
                          ELSE find_lines(lines, account_id, <<line_identifier>>, None, ord)
    IN  IF account_id \notin AccountIds THEN not_found(r)
        ELSE returns([r EXCEPT !.success = TRUE, !.trigger_modal = "mirror_line",
                               !.line_ids = IF line_to_mirror = <<>> THEN {} ELSE {line_to_mirror[1]}])

\* upgrade_line(account_id, line_identifier)
upgrade_line(account_id, line_identifier, ord) ==
    LET r == Call("upgrade_line", account_id, IF line_identifier = <<>> THEN <<>> ELSE <<line_identifier>>)
        line_to_upgrade == IF line_identifier = <<>> THEN <<>>
                           ELSE find_lines(lines, account_id, <<line_identifier>>, None, ord)
    IN  IF account_id \notin AccountIds THEN not_found(r)
        ELSE returns([r EXCEPT !.success = TRUE, !.trigger_modal = "upgrade_line",
                               !.line_ids = IF line_to_upgrade = <<>> THEN {} ELSE {line_to_upgrade[1]}])

\* the names in self.function_map
function_map ==
    {"add_service_to_lines", "list_account_lines", "get_account_summary", "suspend_lines",
     "restore_lines", "reactivate_cancelled_lines", "add_line_to_account", "mirror_line",
     "upgrade_line"}

\* self.function_map[function_name](**function_args)
call(function_name, function_args, ord, service_ord) ==
    IF function_name = "add_service_to_lines"
    THEN chatbot_add_service_to_lines(function_args.account_id, function_args.service_type,
                                      function_args.line_identifiers, ord, service_ord)
    ELSE IF function_name = "list_account_lines"
    THEN list_account_lines(function_args.account_id, function_args.status_filter, ord)
    ELSE IF function_name = "get_account_summary"
    THEN get_account_summary(function_args.account_id)
    ELSE IF function_name = "suspend_lines"
    THEN chatbot_suspend_lines(function_args.account_id, function_args.line_identifiers, ord)
    ELSE IF function_name = "restore_lines"
    THEN chatbot_restore_lines(function_args.account_id, function_args.line_identifiers, ord)
    ELSE IF function_name = "reactivate_cancelled_lines"
    THEN chatbot_reactivate_cancelled_lines(function_args.account_id, function_args.line_identifiers, ord)
    ELSE IF function_name = "add_line_to_account"
    THEN add_line_to_account(function_args.account_id)
    ELSE IF function_name = "mirror_line"
    THEN mirror_line(function_args.account_id, function_args.line_identifier, ord)
    ELSE upgrade_line(function_args.account_id, function_args.line_identifier, ord)

\* _format_function_response(function_name, result, ai_content), filling in the answer c
format_function_response(c, function_name, result) ==
    LET listing(seq) == [c EXCEPT !.response = "formatted", !.tool_result = seq]
        modal == [listing(<<>>) EXCEPT !.trigger_modal = result.trigger_modal]
    IN  IF ~result.success THEN [c EXCEPT !.response = "could not complete"]
        ELSE IF function_name = "add_service_to_lines"
        THEN IF result.trigger_modal = "add_service" THEN modal
             ELSE IF result.needs_clarification
             THEN [listing(<<>>) EXCEPT !.needs_clarification = TRUE]
             ELSE [listing([i \in DOMAIN result.entries |-> result.entries[i].line]) EXCEPT
                      !.refresh_needed = TRUE]
        ELSE IF function_name = "list_account_lines" THEN listing(result.results)
        ELSE IF function_name = "get_account_summary" THEN listing(<<>>)
        ELSE IF function_name = "suspend_lines"
        THEN IF result.needs_clarification
             THEN [listing(IF result.available_lines # <<>> THEN result.available_lines
                           ELSE result.matching_lines) EXCEPT !.needs_clarification = TRUE]
             ELSE [listing(result.results) EXCEPT !.refresh_needed = TRUE]
        ELSE IF function_name \in {"restore_lines", "reactivate_cancelled_lines"}
        THEN [listing(result.results) EXCEPT !.refresh_needed = TRUE]
        ELSE IF function_name = "add_line_to_account" THEN modal
        ELSE IF function_name \in {"mirror_line", "upgrade_line"}
        THEN [modal EXCEPT !.line = IF result.line_ids = {} THEN 0
                                    ELSE CHOOSE l \in result.line_ids : TRUE]
        ELSE listing(<<>>)

\* any value of the setting but None counts as a credential
configured_any_value(api_key) == api_key # None

\* not (not api_key or api_key == 'your_openai_api_key_here')
configured(api_key) == api_key \notin {None, "", "your_openai_api_key_here"}

\* the arguments of the model, passed on as they are
function_args_as_given(account_id, arguments) == arguments

\* if 'account_id' not in function_args: function_args['account_id'] = account_id ;
\* account_id 0 in arguments is an absent one
function_args(account_id, arguments) ==
    IF arguments.account_id = 0 THEN [arguments EXCEPT !.account_id = account_id] ELSE arguments

\* process_message(message, account_id, conversation_history) with the setting api_key
\* and the model's reply: kind "error" is a call of the model that raised, "text" a reply
\* without function_call; arguments that are not valid are not JSON: json.loads raises
process_message(api_key, account_id, reply, ord, service_ord) ==
    LET c == [NoChat EXCEPT !.account = account_id, !.api_key = api_key, !.reply = reply]
        answers(response) == /\ chat' = [c EXCEPT !.response = response]
                             /\ returns(Response("process_message", account_id))
    IN  IF ~configured(api_key) THEN answers("not configured")
        ELSE IF reply.kind = "error" THEN answers("error")
        ELSE IF reply.kind = "text" THEN answers("text")
        ELSE IF ~reply.arguments.valid THEN answers("error")
        ELSE IF reply.name \notin function_map THEN answers("unknown function")
        ELSE /\ call(reply.name, function_args(account_id, reply.arguments), ord, service_ord)
             /\ chat' = format_function_response(c, reply.name, last')

\* values of settings.OPENAI_API_KEY: unset, the placeholder, a credential
ApiKeys == {None, "your_openai_api_key_here", "credential"}

\* replies of the model: a failed call, plain text, and function calls by name (one of
\* them not in function_map) with and without account_id, with and without identifiers
ModelReplies ==
    LET none == [valid |-> TRUE, account_id |-> 0, line_identifiers |-> <<>>,
                 line_identifier |-> <<>>, service_type |-> <<>>, status_filter |-> None]
        john == <<74, 111, 104, 110>> (* "John" *)
    IN  {[kind |-> k, name |-> None, arguments |-> none] : k \in {"error", "text"}}
        \cup {[kind |-> "function_call", name |-> "suspend_lines",
               arguments |-> [none EXCEPT !.valid = FALSE]]}
        \cup {[kind |-> "function_call", name |-> n,
               arguments |-> [none EXCEPT !.account_id = a, !.line_identifiers = ids,
                                          !.line_identifier = IF ids = <<>> THEN <<>> ELSE ids[1],
                                          !.service_type = st, !.status_filter = sf]] :
                 n \in function_map \cup {"delete_account"}, a \in {0} \cup AccountIdArgs,
                 ids \in {<<>>, <<john>>, <<<<83, 97, 114, 97, 104>> (* "Sarah" *)>>},
                 st \in {<<49, 32, 100, 97, 121, 32, 112, 97, 115, 115>> (* "1 day pass" *)},
                 sf \in {None}}
        \cup {[kind |-> "function_call", name |-> "add_service_to_lines",
               arguments |-> [none EXCEPT !.service_type = st]] : st \in {<<>>, <<114, 111, 97, 109, 105, 110, 103>> (* "roaming" *)}}
        \cup {[kind |-> "function_call", name |-> "list_account_lines",
               arguments |-> [none EXCEPT !.status_filter = "ACTIVE"]]}

\* POST /api/chatbot/message/ requests, one at a time
NextAssistant ==
    \/ /\ Idle
       /\ UNCHANGED pending
       /\ \E api_key \in ApiKeys, account_id \in AccountIds, reply \in ModelReplies :
             \E ord \in Orders(account_lines(lines, function_args(account_id, reply.arguments).account_id)),
                service_ord \in ServicesOrderedBy(services, ServiceIds) :
                process_message(api_key, account_id, reply, ord, service_ord)
       /\ BagCardinality(line_services') <= MaxLineServices
    \/ Respond

SpecAssistant == Init /\ [][NextAssistant]_vars

C22_AtMostOneOperation ==
    [][(chat'.account # 0 /\ chat'.api_key = "credential")
          => /\ chat'.reply.kind = "text"
                   => /\ last'.op = "process_message"
                      /\ chat'.response = "text"
                      /\ UNCHANGED <<accounts, lines, line_services>>
             /\ (/\ chat'.reply.kind = "function_call" /\ chat'.reply.arguments.valid
                 /\ chat'.reply.name \notin {"add_service_to_lines", "list_account_lines",
                        "get_account_summary", "suspend_lines", "restore_lines",
                        "reactivate_cancelled_lines", "add_line_to_account", "mirror_line",
                        "upgrade_line"})
                   => /\ last'.op = "process_message"
                      /\ chat'.response = "unknown function"
                      /\ UNCHANGED <<accounts, lines, line_services>>
             /\ (/\ chat'.reply.kind = "function_call" /\ chat'.reply.arguments.valid
                 /\ chat'.reply.name \in {"add_service_to_lines", "list_account_lines",
                        "get_account_summary", "suspend_lines", "restore_lines",
                        "reactivate_cancelled_lines", "add_line_to_account", "mirror_line",
                        "upgrade_line"})
                   => /\ last'.op = chat'.reply.name
                      /\ last'.account = IF chat'.reply.arguments.account_id = 0
                                         THEN chat'.account
                                         ELSE chat'.reply.arguments.account_id]_vars

\* a function call without account_id that suspended the only ACTIVE line of the
\* request's account
C22_Witness ==
    /\ chat.reply.kind = "function_call"
    /\ chat.reply.arguments.account_id = 0
    /\ last.op = "suspend_lines"
    /\ last.account = chat.account
    /\ last.success

\* C24: when suspend_lines asks which line is meant and names the candidates, the
\* assistant's answer has needs_clarification true and a tool_result listing them
C24_ClarificationReachesTheAnswer ==
    (/\ chat.reply.kind = "function_call" /\ last.op = "suspend_lines"
     /\ last.needs_clarification
     /\ (last.available_lines # <<>> \/ last.matching_lines # <<>>))
        => /\ chat.needs_clarification
           /\ chat.tool_result = IF last.available_lines # <<>> THEN last.available_lines
                                 ELSE last.matching_lines

\* C27: an answer has refresh_needed true only when the request changed a line or the
\* LineService table
C27_RefreshOnlyAfterAChange ==
    [][chat'.refresh_needed => (lines' # lines \/ line_services' # line_services)]_vars

\* C28: a request made on an account changes no line and no LineService of another
\* account, and its answer lists no line of another account
C28_OnlyTheRequestsAccount ==
    [][chat'.account # 0
          => /\ \A l \in DOMAIN lines : lines'[l] # lines[l] => lines[l].account = chat'.account
             /\ \A row \in BagToSet(line_services') :
                   CopiesIn(row, line_services') # CopiesIn(row, line_services)
                      => lines[row.line].account = chat'.account
             /\ chat'.tool_result # None
                   => \A i \in DOMAIN chat'.tool_result :
                         lines[chat'.tool_result[i]].account = chat'.account
             /\ chat'.line # 0 => lines[chat'.line].account = chat'.account]_vars

(***************************************************************************)
(* Requests handled at the same time, one database statement at a step:    *)
(* the loops of the add-service, suspend and restore endpoints, and the    *)
(* deactivation of an account.                                             *)
(***************************************************************************)
\* the loop of request moves on to its next loaded row, at pc, or the request ends
next_line(request, pc) ==
    IF Tail(request.loaded) = <<>> THEN NoRequest
    ELSE [request EXCEPT !.pc = pc, !.loaded = Tail(@)]

\* POST /api/services/add/ up to its loop: the service and the lines are loaded
begin_add_service(i, service_id, line_ids, ord) ==
    /\ pending[i].op = "idle"
    /\ service_id \in ServiceIds
    /\ line_ids \cap LineIds # {}
    /\ pending' = [pending EXCEPT ![i] =
                      [op |-> "add_service_to_lines", pc |-> "check", service |-> service_id,
                       loaded |-> [n \in DOMAIN rows(line_ids \cap LineIds, ord) |->
                                      [id |-> rows(line_ids \cap LineIds, ord)[n],
                                       row |-> lines[rows(line_ids \cap LineIds, ord)[n]]]]]]
    /\ UNCHANGED <<accounts, lines, last, trail, services, line_services, failing, chat>>

\* existing_service = LineService.objects.filter(...).exists(); if existing_service: continue
check_existing_service(i) ==
    /\ pending[i].op = "add_service_to_lines"
    /\ pending[i].pc = "check"
    /\ pending' = [pending EXCEPT ![i] =
                      IF existing(line_services, Head(pending[i].loaded).id, pending[i].service)
                      THEN next_line(pending[i], "check")
                      ELSE [pending[i] EXCEPT !.pc = "create"]]
    /\ UNCHANGED <<accounts, lines, last, trail, services, line_services, failing, chat>>

\* line_service = LineService.objects.create(...)
create_line_service(i) ==
    /\ pending[i].op = "add_service_to_lines"
    /\ pending[i].pc = "create"
    /\ line_services' = line_services (+) SetToBag({new_line_service(Head(pending[i].loaded).id,
                                                                     pending[i].service, "Credit Card")})
    /\ pending' = [pending EXCEPT ![i] = next_line(pending[i], "check")]
    /\ UNCHANGED <<accounts, lines, last, trail, services, failing, chat>>

\* POST /api/lines/suspend/ and /api/lines/restore/ up to their loop: the lines are loaded
begin_line_status(i, op, line_ids, ord) ==
    /\ pending[i].op = "idle"
    /\ line_ids \cap LineIds # {}
    /\ pending' = [pending EXCEPT ![i] =
                      [op |-> op, pc |-> "save", service |-> 0,
                       loaded |-> [n \in DOMAIN rows(line_ids \cap LineIds, ord) |->
                                      [id |-> rows(line_ids \cap LineIds, ord)[n],
                                       row |-> lines[rows(line_ids \cap LineIds, ord)[n]]]]]]
    /\ UNCHANGED <<accounts, lines, last, trail, services, line_services, failing, chat>>

\* if line.status == 'ACTIVE': line.status = 'SUSPENDED'; line.save()  (restore:
\* 'SUSPENDED' to 'ACTIVE'); line is the object loaded before the loop, and save() writes
\* every column of it
save_line(i) ==
    LET line == Head(pending[i].loaded)
        old == IF pending[i].op = "suspend_lines" THEN "ACTIVE" ELSE "SUSPENDED"
        new == IF pending[i].op = "suspend_lines" THEN "SUSPENDED" ELSE "ACTIVE"
    IN  /\ pending[i].op \in {"suspend_lines", "restore_lines"}
        /\ pending[i].pc = "save"
        /\ lines' = IF line.row.status = old
                    THEN [lines EXCEPT ![line.id] = save([line.row EXCEPT !.status = new])]
                    ELSE lines
        /\ pending' = [pending EXCEPT ![i] = next_line(pending[i], "save")]
        /\ UNCHANGED <<accounts, last, trail, services, line_services, failing, chat>>

\* add-service requests under way at the same time
NextInterleavedAdds ==
    \/ \E i \in 1..MaxRequests, line_ids \in {{1}, {1, 2}} : \E ord \in Orders(line_ids \cap LineIds) :
          begin_add_service(i, 1, line_ids, ord)
    \/ \E i \in 1..MaxRequests : check_existing_service(i)
    \/ /\ \E i \in 1..MaxRequests : create_line_service(i)
       /\ BagCardinality(line_services') <= MaxLineServices

SpecInterleavedAdds == Init /\ [][NextInterleavedAdds]_vars

\* suspend and restore requests under way while accounts are deactivated
NextInterleavedStatus ==
    \/ \E i \in 1..MaxRequests, op \in {"suspend_lines", "restore_lines"}, line_ids \in {{1}, {1, 2}} :
          \E ord \in Orders(line_ids \cap LineIds) : begin_line_status(i, op, line_ids, ord)
    \/ \E i \in 1..MaxRequests : save_line(i)
    \/ /\ Idle
       /\ UNCHANGED <<chat, pending>>
       /\ \E a \in AccountIdArgs : update_account_status(a, "INACTIVE")
    \/ Respond

SpecInterleavedStatus == Init /\ [][NextInterleavedStatus]_vars

\* C29: whatever the order of the steps of the requests under way, no line holds two
\* PENDING or ACTIVE LineServices of one service
C29_InterleavedAddsKeepOneInForce ==
    \A row \in BagToSet(line_services) :
        row.status \in {"PENDING", "ACTIVE"}
           => /\ CopiesIn(row, line_services) = 1
              /\ in_force(line_services, row.line, row.service) = {row}

\* C30: when no suspend or restore request is under way, every line of an INACTIVE
\* account is CANCELLED
C30_DeactivationCascadeKept ==
    (\A i \in 1..MaxRequests : pending[i].op \notin {"suspend_lines", "restore_lines"})
        => \A a \in AccountIds :
              accounts[a].status = "INACTIVE"
                 => \A l \in account_lines(lines, a) : lines[l].status = "CANCELLED"

====
